---- MODULE Spec2Model ----
(***************************************************************************)
(* Model of the idempotent-ingestion pipeline of the water-quality         *)
(* harmonizer: the entity upserts and the measurement insert of            *)
(* ewai/db/db_util.py over the PostgreSQL tables of _DDL_SQL, and the      *)
(* /ingest/persist handler of server/app.py that chains them.              *)
(*                                                                         *)
(* The store is the committed content of the tables.  Every helper of      *)
(* db_util.py ends with conn.commit(), so a helper is one atomic step on   *)
(* the committed store; insert_measurements is split into its pages, whose *)
(* rows stay pending in the request's transaction until its commit.        *)
(***************************************************************************)
EXTENDS Integers, Sequences, FiniteSets, Bags, TLC

VARIABLES
    clients,          \* public.clients: set of [client_id, email]
    waterbodies,      \* public.waterbodies: set of rows
    sampling_points,  \* public.sampling_points: set of rows
    datasets,         \* public.datasets: set of rows
    parameters,       \* public.parameters: set of codes (parameter_id is in bijection with code)
    non_parameters,   \* public.non_parameters: set of codes
    measurements,     \* public.measurements: bag of committed rows (without measurement_id)
    now,              \* logical clock behind now() of uploaded_at
    req,              \* the persist requests in flight, per request slot
    started,          \* number of persist requests started so far
    last              \* the last library call made directly: its arguments and what it returned

vars == <<clients, waterbodies, sampling_points, datasets, parameters,
          non_parameters, measurements, now, req, started, last>>

store == <<clients, waterbodies, sampling_points, datasets, parameters,
           non_parameters, measurements>>

\* SQL NULL / Python None / NaT in a text or timestamp column
NULL == "NULL"

\* SQL NULL / Python None in an identity column (identities of rows are 1, 2, ...)
NULL_ID == 0

\* `wb` of a session whose waterbody resolution failed (None)
NO_WATERBODY == [present |-> FALSE, name |-> NULL, type |-> NULL,
                 confidence |-> 0, provenance |-> {}]

Min(a, b) == IF a < b THEN a ELSE b

Max(a, b) == IF a >= b THEN a ELSE b

Range(f) == {f[x] : x \in DOMAIN f}

----------------------------------------------------------------------------
(* Vocabulary registry (a slice of the 43 registered codes)                 *)

STANDARD_UNITS == [ph |-> "unitless", temperature |-> "C", nitrate |-> "mg/L"]

CONTROLLED_META_VOCAB ==
    {"timestamp", "datetime", "date", "time",
     "sampling_point", "site", "station", "site_id",
     "latitude", "longitude", "lat", "lon",
     "depth", "sample_id", "operator_id",
     "remarks", "notes", "file_name"}

WATERBODY_TYPES == {"reservoir", "lake", "river", "lagoon", "wetland", "canal", "unknown"}

\* PRESET_SAMPLING_LOCATIONS, keyed by the normalized label (one of the seven presets)
PRESET_SAMPLING_LOCATIONS == [presa |-> <<"6.098556", "-75.490806">>]

\* _norm_point_key on the labels of the model: lowercases, strips, drops punctuation
_norm_point_key(s) ==
    CASE s = "Presa"  -> "presa"
      [] s = "presa." -> "presa"
      [] s = NULL     -> NULL
      [] s = ""       -> NULL
      [] OTHER        -> s

\* SQL COALESCE(a, b) on a text or number column, and on an identity column
Coalesce(a, b) == IF a # NULL THEN a ELSE b

CoalesceId(a, b) == IF a # NULL_ID THEN a ELSE b

\* Python truthiness of an optional string: None and "" are falsy
Truthy(x) == x # NULL /\ x # ""

\* gen_random_uuid() / SERIAL: an identity no row of the table has yet
FreshId(rows) == Cardinality(rows) + 1

----------------------------------------------------------------------------
(* ensure_client                                                            *)

\* clients.email is UNIQUE: the upsert on client_id fails when another client owns the email
EmailTaken(cl, client_id, email) ==
    \E c \in cl : c.email = email /\ c.client_id # client_id

\* a guard that looks at the email only
MissingEmail(client_id, email) == ~Truthy(email)

\* if not client_id or not email: raise ValueError
MissingClientOrEmail(client_id, email) == ~Truthy(client_id) \/ ~Truthy(email)

ensure_client(cl, client_id, email) ==
    IF MissingClientOrEmail(client_id, email)
    THEN [ok |-> FALSE, error |-> "ValueError", rows |-> cl]
    ELSE IF EmailTaken(cl, client_id, email)
    THEN [ok |-> FALSE, error |-> "IntegrityError", rows |-> cl]
    ELSE [ok |-> TRUE, error |-> NULL,
          rows |-> {c \in cl : c.client_id # client_id}
                   \cup {[client_id |-> client_id, email |-> email]}]

----------------------------------------------------------------------------
(* upsert_waterbody                                                         *)

\* confidence NUMERIC(4,3): an incoming confidence, given in 1e-4, is rounded
\* half away from zero to 1e-3 (the model has no negative confidence)
ToNumeric43(c) == (c + 5) \div 10

\* NUMERIC(4,3) holds |x| < 10; anything else is "numeric field overflow"
NumericOverflow(c) == ToNumeric43(c) >= 10000

\* wtype not in the CHECK list is coerced to 'unknown'
CoerceType(t) == IF t \in WATERBODY_TYPES THEN t ELSE "unknown"

\* a merge that takes the incoming confidence (SET confidence = EXCLUDED.confidence)
MergeConfidenceOverwrite(old, incoming) == incoming

\* ON CONFLICT (client_id, name, type) DO UPDATE SET confidence = GREATEST(..)
MergeConfidence(old, incoming) == Max(old, incoming)

\* ... provenance = ARRAY(SELECT DISTINCT UNNEST(old || incoming))
MergeProvenance(old, incoming) == old \cup incoming

upsert_waterbody(wbs, client_id, wb) ==
    IF ~Truthy(client_id) \/ ~wb.present \/ ~Truthy(wb.name) \/ ~Truthy(wb.type)
    THEN [ok |-> FALSE, error |-> "ValueError", rows |-> wbs, id |-> NULL_ID]
    ELSE IF NumericOverflow(wb.confidence)
    THEN [ok |-> FALSE, error |-> "DataError", rows |-> wbs, id |-> NULL_ID]
    ELSE
      LET wtype == CoerceType(wb.type)
          conf  == ToNumeric43(wb.confidence)
          hit   == {w \in wbs : w.client_id = client_id /\ w.name = wb.name /\ w.type = wtype}
      IN IF hit = {}
         THEN LET id == FreshId(wbs)
              IN [ok |-> TRUE, error |-> NULL, id |-> id,
                  rows |-> wbs \cup {[waterbody_id |-> id, client_id |-> client_id,
                                      name |-> wb.name, type |-> wtype,
                                      confidence |-> conf, provenance |-> wb.provenance]}]
         ELSE LET w == CHOOSE x \in hit : TRUE
              IN [ok |-> TRUE, error |-> NULL, id |-> w.waterbody_id,
                  rows |-> (wbs \ {w}) \cup
                           {[w EXCEPT !.confidence = MergeConfidence(w.confidence, conf),
                                      !.provenance = MergeProvenance(w.provenance, wb.provenance)]}]

----------------------------------------------------------------------------
(* upsert_sampling_points                                                   *)

\* df_sampling is [code_col |-> BOOLEAN, rows |-> sequence of [code, lat, lon, depth_m]];
\* a column the frame does not have reads NULL in every row

\* .dropna(subset=[code_col]), strip, != "", drop_duplicates(subset=[code_col]) (keeps the first)
RECURSIVE DedupSampling(_, _)
DedupSampling(rows, seen) ==
    IF rows = <<>> THEN <<>>
    ELSE LET r == Head(rows)
         IN IF ~Truthy(r.code) \/ r.code \in seen
            THEN DedupSampling(Tail(rows), seen)
            ELSE <<r>> \o DedupSampling(Tail(rows), seen \cup {r.code})

\* PRESET_SAMPLING_LOCATIONS.get(_norm_point_key(code)); name = code, so the second lookup is the same
PresetOf(code) ==
    LET k == _norm_point_key(code)
    IN IF k \in DOMAIN PRESET_SAMPLING_LOCATIONS
       THEN PRESET_SAMPLING_LOCATIONS[k] ELSE <<NULL, NULL>>

\* lines 607-618: the row's explicit values, the preset filling only what is missing
SamplingValues(r) ==
    LET preset == IF r.lat = NULL \/ r.lon = NULL THEN PresetOf(r.code) ELSE <<NULL, NULL>>
    IN [code |-> r.code, name |-> r.code,
        lat |-> IF r.lat # NULL THEN r.lat ELSE preset[1],
        lon |-> IF r.lon # NULL THEN r.lon ELSE preset[2],
        depth_m |-> r.depth_m]

\* ON CONFLICT (client_id, code) DO UPDATE SET f = COALESCE(EXCLUDED.f, sampling_points.f)
MergeField(existing, excluded) == Coalesce(excluded, existing)

MergeRef(existing, excluded) == CoalesceId(excluded, existing)

\* one INSERT ... ON CONFLICT ... RETURNING sampling_point_id
UpsertSamplingRow(sps, client_id, waterbody_id, v) ==
    LET hit == {p \in sps : p.client_id = client_id /\ p.code = v.code}
    IN IF hit = {}
       THEN LET id == FreshId(sps)
            IN [id |-> id,
                rows |-> sps \cup {[sampling_point_id |-> id, client_id |-> client_id,
                                    waterbody_id |-> waterbody_id, code |-> v.code,
                                    name |-> v.name, lat |-> v.lat, lon |-> v.lon,
                                    depth_m |-> v.depth_m]}]
       ELSE LET p == CHOOSE x \in hit : TRUE
            IN [id |-> p.sampling_point_id,
                rows |-> (sps \ {p}) \cup
                    {[p EXCEPT !.waterbody_id = MergeRef(p.waterbody_id, waterbody_id),
                               !.name    = MergeField(p.name, v.name),
                               !.lat     = MergeField(p.lat, v.lat),
                               !.lon     = MergeField(p.lon, v.lon),
                               !.depth_m = MergeField(p.depth_m, v.depth_m)]}]

RECURSIVE UpsertSamplingRows(_, _, _, _, _)
UpsertSamplingRows(sps, client_id, waterbody_id, rows, mapping) ==
    IF rows = <<>> THEN [rows |-> sps, mapping |-> mapping]
    ELSE LET v == SamplingValues(Head(rows))
             u == UpsertSamplingRow(sps, client_id, waterbody_id, v)
         IN UpsertSamplingRows(u.rows, client_id, waterbody_id, Tail(rows),
                [c \in DOMAIN mapping \cup {v.code} |->
                    IF c = v.code THEN u.id ELSE mapping[c]])

\* the empty mapping {}
NoMapping == [c \in {} |-> NULL_ID]

upsert_sampling_points(sps, client_id, waterbody_id, df_sampling) ==
    IF df_sampling.rows = <<>>
    THEN [ok |-> TRUE, error |-> NULL, rows |-> sps, mapping |-> NoMapping]
    ELSE IF ~df_sampling.code_col
    THEN [ok |-> FALSE, error |-> "ValueError", rows |-> sps, mapping |-> NoMapping]
    ELSE LET u == UpsertSamplingRows(sps, client_id, waterbody_id,
                                     DedupSampling(df_sampling.rows, {}), NoMapping)
         IN [ok |-> TRUE, error |-> NULL, rows |-> u.rows, mapping |-> u.mapping]

----------------------------------------------------------------------------
(* register_dataset                                                         *)

\* content_sha256(raw_bytes, extra): SHA-256 taken as collision-free
content_sha256(b, extra) == <<b, IF Truthy(extra) THEN extra ELSE "">>

\* content_hash of a call without a fingerprint (None)
NO_HASH == <<NULL, NULL>>

\* an insert that never meets a conflict (no arbiter on content_hash)
ConflictNever(ds, content_hash) == {}

\* content_hash TEXT NULL UNIQUE: the row an insert of this hash conflicts with
ConflictOnHash(ds, content_hash) == {d \in ds : d.content_hash = content_hash}

\* a conflict clause that takes every column of the incoming row
OverwriteDataset(d, t, incoming) == [incoming EXCEPT !.dataset_id = d.dataset_id]

\* ON CONFLICT (content_hash) DO UPDATE SET uploaded_at = now(): the row that is kept
RefreshDataset(d, t, incoming) == [d EXCEPT !.uploaded_at = t]

register_dataset(ds, t, client_id, file_name, sheet_name, row_count, col_count, waterbody_id, content_hash) ==
    IF ~Truthy(client_id) \/ ~Truthy(file_name)
    THEN [ok |-> FALSE, error |-> "ValueError", rows |-> ds, id |-> NULL_ID]
    ELSE
      LET incoming == [dataset_id |-> FreshId(ds), client_id |-> client_id,
                       waterbody_id |-> waterbody_id, file_name |-> file_name,
                       sheet_name |-> sheet_name, row_count |-> row_count,
                       col_count |-> col_count,
                       content_hash |-> content_hash,
                       uploaded_at |-> t]
          hit == IF content_hash # NO_HASH THEN ConflictOnHash(ds, content_hash) ELSE {}
      IN IF hit = {}
         THEN [ok |-> TRUE, error |-> NULL, id |-> incoming.dataset_id,
               rows |-> ds \cup {incoming}]
         ELSE LET d == CHOOSE x \in hit : TRUE
              IN [ok |-> TRUE, error |-> NULL, id |-> d.dataset_id,
                  rows |-> (ds \ {d}) \cup {RefreshDataset(d, t, incoming)}]

----------------------------------------------------------------------------
(* upsert_parameters_for_codes, upsert_non_params_for_cols                  *)

\* a code without a standard unit is skipped
upsert_parameters_for_codes(params, codes) ==
    params \cup {c \in codes : Truthy(c) /\ c \in DOMAIN STANDARD_UNITS}

upsert_non_params_for_cols(np, cols) ==
    np \cup {c \in cols : c \in CONTROLLED_META_VOCAB}

----------------------------------------------------------------------------
(* melt_harmonized                                                          *)

\* A harmonized table df_h is [columns |-> sequence of labels, rows |-> sequence of
\* functions label -> cell].  A cell of a timestamp or site column is a string or
\* NULL; a cell of any other column is [num |-> BOOLEAN, v |-> Int].

\* NaN of a float column
NaN == -9999

\* _first_present: the first candidate that is a column of the frame, else NULL
RECURSIVE _first_present(_, _)
_first_present(columns, candidates) ==
    IF candidates = <<>> THEN NULL
    ELSE IF Head(candidates) \in Range(columns) THEN Head(candidates)
    ELSE _first_present(columns, Tail(candidates))

TS_CANDIDATES == <<"timestamp", "datetime", "date", "time">>

SP_CANDIDATES == <<"sampling_point", "site", "station", "site_id">>

\* f"{n} ({k})": the name a repeated column label gets from _uniqueify
Suffixed(n, k) == n \o " (" \o ToString(k) \o ")"

\* f"{param} [{unit}]"
Label(param, unit) == param \o " [" \o unit \o "]"

\* the column names without a unit that the tables of the model hold and that a unit
\* is ever attached to, and the unit strings of the model
LabelBases ==
    LET words == DOMAIN STANDARD_UNITS \cup {"timestamp"}
    IN words \cup {Suffixed(w, 1) : w \in words}

LabelUnits == {"unitless", "C", "K", "F", "mg/L", "ug/L", "celsius", "not_applicable"}

\* _parse_param_and_unit: the regex ^(?P<param>[^\[]+?)\s*\[(?P<unit>[^\]]+)\]\s*$ matches
\* "param [unit]" and nothing that goes on after the closing bracket
_parse_param_and_unit(col) ==
    LET hits == {pu \in LabelBases \X LabelUnits : col = Label(pu[1], pu[2])}
    IN IF hits = {} THEN <<col, NULL>> ELSE CHOOSE pu \in hits : TRUE

\* pd.to_datetime(errors="coerce"): a cell that is no date becomes NaT
ToDatetime(cell) == IF cell \in {"t1", "t2"} THEN cell ELSE NULL

\* df_h[sp_col].astype(str).str.strip(), then "" -> None: NaN becomes the label "nan"
SiteLabel(cell) == IF cell = NULL THEN "nan" ELSE IF cell = "" THEN NULL ELSE cell

\* pd.to_numeric(errors="coerce")
ToNumeric(cell) == IF cell.num THEN cell.v ELSE NaN

\* the records of one column, those without a numeric value dropped
MeltColumnDropNaN(df_h, ts_col, sp_col, col) ==
    LET pu == _parse_param_and_unit(col)
        kept == SelectSeq(df_h.rows, LAMBDA row : row[col].num)
    IN [i \in 1..Len(kept) |->
          [ts |-> IF ts_col # NULL THEN ToDatetime(kept[i][ts_col]) ELSE NULL,
           sampling_point |-> IF sp_col # NULL THEN SiteLabel(kept[i][sp_col]) ELSE NULL,
           parameter_code |-> pu[1],
           unit |-> pu[2],
           value |-> ToNumeric(kept[i][col]),
           source_column |-> col]]

MeltColumn(df_h, ts_col, sp_col, col) ==
    LET pu == _parse_param_and_unit(col)
    IN [i \in 1..Len(df_h.rows) |->
          [ts |-> IF ts_col # NULL THEN ToDatetime(df_h.rows[i][ts_col]) ELSE NULL,
           sampling_point |-> IF sp_col # NULL THEN SiteLabel(df_h.rows[i][sp_col]) ELSE NULL,
           parameter_code |-> pu[1],
           unit |-> pu[2],
           value |-> ToNumeric(df_h.rows[i][col]),
           source_column |-> col]]

RECURSIVE MeltColumns(_, _, _, _)
MeltColumns(df_h, ts_col, sp_col, cols) ==
    IF cols = <<>> THEN <<>>
    ELSE MeltColumn(df_h, ts_col, sp_col, Head(cols))
         \o MeltColumns(df_h, ts_col, sp_col, Tail(cols))

melt_harmonized(df_h) ==
    IF df_h.rows = <<>> \/ df_h.columns = <<>> THEN <<>>
    ELSE LET ts_col == _first_present(df_h.columns, TS_CANDIDATES)
             sp_col == _first_present(df_h.columns, SP_CANDIDATES)
             param_cols == SelectSeq(df_h.columns, LAMBDA c : c # ts_col /\ c # sp_col)
         IN MeltColumns(df_h, ts_col, sp_col, param_cols)

----------------------------------------------------------------------------
(* _compute_quality_flags_df                                                *)

QUALITY_FLAGS == [ok |-> 0, out_of_range |-> 1, missing |-> 2, outlier |-> 3]

\* values of the model are whole numbers of the parameter's unit
PLAUSIBLE_RANGE == [temperature |-> <<-5, 50>>, ph |-> <<0, 14>>, nitrate |-> <<0, 50>>]

\* the range pass alone, without the missing pass before it
RangeFlagOnly(rec) ==
    IF rec.parameter_code \in DOMAIN PLAUSIBLE_RANGE
       /\ (rec.value < PLAUSIBLE_RANGE[rec.parameter_code][1]
           \/ rec.value > PLAUSIBLE_RANGE[rec.parameter_code][2])
    THEN "out_of_range"
    ELSE NULL

\* the first two passes with a range that excludes its own bounds
RangeFlagInclusive(rec) ==
    IF rec.value = NaN THEN "missing"
    ELSE IF rec.parameter_code \in DOMAIN PLAUSIBLE_RANGE
            /\ (rec.value <= PLAUSIBLE_RANGE[rec.parameter_code][1]
                \/ rec.value >= PLAUSIBLE_RANGE[rec.parameter_code][2])
    THEN "out_of_range"
    ELSE NULL

\* the first two passes: missing, then out_of_range; NULL where neither applies
RangeFlag(rec) ==
    IF rec.value = NaN THEN "missing"
    ELSE IF rec.parameter_code \in DOMAIN PLAUSIBLE_RANGE
            /\ (rec.value < PLAUSIBLE_RANGE[rec.parameter_code][1]
                \/ rec.value > PLAUSIBLE_RANGE[rec.parameter_code][2])
    THEN "out_of_range"
    ELSE NULL

RECURSIVE Insort(_, _)
Insort(x, sorted) ==
    IF sorted = <<>> THEN <<x>>
    ELSE IF x <= Head(sorted) THEN <<x>> \o sorted
    ELSE <<Head(sorted)>> \o Insort(x, Tail(sorted))

RECURSIVE SortValues(_)
SortValues(s) == IF s = <<>> THEN <<>> ELSE Insort(Head(s), SortValues(Tail(s)))

\* 4 * Series.quantile(k/4), linear interpolation between the two nearest ranks
Quantile4(sorted, k) ==
    LET h == k * (Len(sorted) - 1)
        j == h \div 4
        g == h % 4
    IN IF g = 0 THEN 4 * sorted[j + 1]
       ELSE 4 * sorted[j + 1] + g * (sorted[j + 2] - sorted[j + 1])

\* the values of one parameter that the first two passes left unflagged
Remaining(long_df, pcode) ==
    LET idx == SelectSeq([i \in 1..Len(long_df) |-> i],
                   LAMBDA i : long_df[i].parameter_code = pcode /\ RangeFlag(long_df[i]) = NULL)
    IN [n \in 1..Len(idx) |-> long_df[idx[n]].value]

\* fewer than MinOutlierSample values: the parameter is not scored
MinOutlierSample == 5

\* the Tukey fence is k = 3 interquartile ranges wide
TukeyK == 3

\* the fence test alone, whatever the sample size and the interquartile range
IsOutlierUnguarded(long_df, rec) ==
    LET v   == SortValues(Remaining(long_df, rec.parameter_code))
        q1  == Quantile4(v, 1)
        q3  == Quantile4(v, 3)
        iqr == q3 - q1
    IN 4 * rec.value < q1 - TukeyK * iqr \/ 4 * rec.value > q3 + TukeyK * iqr

IsOutlier(long_df, rec) ==
    LET v   == SortValues(Remaining(long_df, rec.parameter_code))
        q1  == Quantile4(v, 1)
        q3  == Quantile4(v, 3)
        iqr == q3 - q1
    IN /\ Len(v) >= MinOutlierSample
       /\ iqr # 0
       /\ (4 * rec.value < q1 - TukeyK * iqr \/ 4 * rec.value > q3 + TukeyK * iqr)

_compute_quality_flags_df(long_df) ==
    [i \in 1..Len(long_df) |->
        IF RangeFlag(long_df[i]) # NULL THEN RangeFlag(long_df[i])
        ELSE IF IsOutlier(long_df, long_df[i]) THEN "outlier"
        ELSE "ok"]

----------------------------------------------------------------------------
(* insert_measurements                                                      *)

\* sp_map.get(sp_code.strip()) if sp_code is a non-empty string, else None
LookupSite(sp_map, sp_code) ==
    IF Truthy(sp_code) /\ sp_code \in DOMAIN sp_map THEN sp_map[sp_code] ELSE NULL_ID

\* lines 797-810: a missing value always gets the flag missing
FlagId(rec, qcode) ==
    IF rec.value = NaN THEN QUALITY_FLAGS["missing"] ELSE QUALITY_FLAGS[qcode]

\* the tuple appended to payload for one long record (value_qualifier is always None)
PayloadRow(dataset_id, sp_map, rec, qcode) ==
    [dataset_id |-> dataset_id,
     sampling_point_id |-> LookupSite(sp_map, rec.sampling_point),
     parameter_id |-> rec.parameter_code,
     ts |-> rec.ts,
     value |-> rec.value,
     unit |-> rec.unit,
     value_qualifier |-> NULL,
     source_column |-> rec.source_column,
     method |-> "harmonized",
     quality_flag_id |-> FlagId(rec, qcode)]

\* `pid = code_to_pid.get(pcode); if not pid: continue`: only codes with a Parameter row
HasParameter(params, rec) == rec.parameter_code \in params

RECURSIVE BuildPayloadFrom(_, _, _, _, _, _)
BuildPayloadFrom(params, dataset_id, long_df, sp_map, flags, i) ==
    IF i > Len(long_df) THEN <<>>
    ELSE (IF HasParameter(params, long_df[i])
          THEN <<PayloadRow(dataset_id, sp_map, long_df[i], flags[i])>>
          ELSE <<>>)
         \o BuildPayloadFrom(params, dataset_id, long_df, sp_map, flags, i + 1)

BuildPayload(params, dataset_id, long_df, sp_map) ==
    BuildPayloadFrom(params, dataset_id, long_df, sp_map,
                     _compute_quality_flags_df(long_df), 1)

\* UNIQUE (dataset_id, sampling_point_id, parameter_id, ts, source_column): PostgreSQL
\* treats NULLs as distinct, so a key with a NULL column conflicts with no row
KeyHasNull(m) ==
    m.sampling_point_id = NULL_ID \/ m.ts = NULL \/ m.source_column = NULL

NaturalKey(m) ==
    <<m.dataset_id, m.sampling_point_id, m.parameter_id, m.ts, m.source_column>>

UniqueConflict(m, rows) ==
    ~KeyHasNull(m) /\ \E e \in rows : NaturalKey(e) = NaturalKey(m)

\* INSERT ... VALUES page ON CONFLICT (natural key) DO NOTHING RETURNING 1:
\* the rows of the page that are inserted, given the rows the statement can see
RECURSIVE InsertRows(_, _)
InsertRows(page, visible) ==
    IF page = <<>> THEN <<>>
    ELSE IF UniqueConflict(Head(page), visible)
    THEN InsertRows(Tail(page), visible)
    ELSE <<Head(page)>> \o InsertRows(Tail(page), visible \cup {Head(page)})

RECURSIVE SeqToBag(_)
SeqToBag(s) == IF s = <<>> THEN EmptyBag ELSE SetToBag({Head(s)}) (+) SeqToBag(Tail(s))

\* execute_values(..., page_size=10000): the batch goes out in pages of page_size rows
\* (scaled to the batches of the model)
PageSize == 1

PageOf(payload, done) ==
    SubSeq(payload, done + 1, IF done + PageSize <= Len(payload) THEN done + PageSize ELSE Len(payload))

\* insert_measurements as one call that nothing interrupts: every page, then the commit
insert_measurements(params, ds, ms, dataset_id, long_df, sp_map) ==
    LET payload == BuildPayload(params, dataset_id, long_df, sp_map)
        rows    == InsertRows(payload, BagToSet(ms))
    IN IF long_df = <<>> \/ payload = <<>>
       THEN [ok |-> TRUE, rows |-> ms, rows_in |-> 0, rows_inserted |-> 0, rows_skipped |-> 0]
       ELSE IF ~\E d \in ds : d.dataset_id = dataset_id
       THEN [ok |-> FALSE, rows |-> ms, rows_in |-> 0, rows_inserted |-> 0, rows_skipped |-> 0]
       ELSE [ok |-> TRUE, rows |-> ms (+) SeqToBag(rows),
             rows_in |-> Len(payload), rows_inserted |-> Len(rows),
             rows_skipped |-> Len(payload) - Len(rows)]

----------------------------------------------------------------------------
(* resolve_waterbody (waterbody_llm_resolver.py)                            *)

\* call_groq_name_type: the oracle call raises, or its answer is sanitised
\* (lines 115-124); an answer that is no JSON object reads as name "", confidence 0
call_groq_name_type(resp) ==
    IF resp.raised
    THEN [ok |-> FALSE, name |-> "unknown", type |-> "unknown", confidence |-> 0]
    ELSE [ok |-> TRUE,
          name |-> IF Truthy(resp.name) THEN resp.name ELSE "unknown",
          type |-> IF resp.type \in WATERBODY_TYPES THEN resp.type ELSE "unknown",
          confidence |-> resp.confidence]

\* fallback_light: a type from a type word in the snippets, a name from the sheet
\* names, confidence 0.55 when either was found and 0.3 otherwise
fallback_light(snips) ==
    LET t == IF snips.type_word \in {"reservoir", "lake"} THEN snips.type_word ELSE "unknown"
        name == IF snips.sheet_name_after_type_word # NULL
                THEN snips.sheet_name_after_type_word ELSE "unknown"
    IN [name |-> name, type |-> t,
        confidence |-> IF name # "unknown" \/ t # "unknown" THEN 5500 ELSE 3000]

\* resolve_waterbody lines 148-169 (needs_confirmation and evidence are not persisted)
resolve_waterbody(snips, resp) ==
    LET llm == call_groq_name_type(resp)
        fb  == fallback_light(snips)
    IN IF ~llm.ok THEN [ok |-> FALSE, wb |-> NO_WATERBODY]
       ELSE IF llm.confidence >= 6000 /\ llm.name # "unknown"
       THEN [ok |-> TRUE,
             wb |-> [present |-> TRUE, name |-> llm.name, type |-> llm.type,
                     confidence |-> llm.confidence, provenance |-> {"llm"}]]
       ELSE [ok |-> TRUE,
             wb |-> [present |-> TRUE,
                     name |-> IF llm.name # "unknown" THEN llm.name ELSE fb.name,
                     type |-> IF llm.type # "unknown" THEN llm.type ELSE fb.type,
                     confidence |-> Max(llm.confidence, fb.confidence),
                     provenance |-> {"llm_low_conf", "fallback"}]]

----------------------------------------------------------------------------
(* Sessions: what /ingest/map left in SESSION_CACHE                         *)

Num(v) == [num |-> TRUE, v |-> v]

Text == [num |-> FALSE, v |-> 0]

\* a sheet with a timestamp column, a sampling_point column, one parameter and one
\* further meta column; the second row's timestamp does not parse
TableA ==
    [columns |-> <<"timestamp", "sampling_point", "ph", "latitude">>,
     rows |-> << [timestamp |-> "t1", sampling_point |-> "Presa", ph |-> Num(7), latitude |-> Text],
                 [timestamp |-> "n/a", sampling_point |-> "Presa", ph |-> Num(8), latitude |-> Text] >>]

\* a csv without a timestamp column, whose site column is called "site"
TableB ==
    [columns |-> <<"site", "nitrate [mg/L]">>,
     rows |-> << ("site" :> "P1") @@ ("nitrate [mg/L]" :> Num(5)) >>]

\* app.py lines 466-478: the distinct non-empty labels of the column "sampling_point"
SamplingFrame(df_h) ==
    IF "sampling_point" \in Range(df_h.columns)
    THEN [code_col |-> TRUE,
          rows |-> DedupSampling(
                     [i \in 1..Len(df_h.rows) |->
                        [code |-> df_h.rows[i]["sampling_point"],
                         lat |-> NULL, lon |-> NULL, depth_m |-> NULL]], {})]
    ELSE [code_col |-> TRUE, rows |-> <<>>]

\* a sheet in which only meta columns were recognised
TableC ==
    [columns |-> <<"sampling_point", "latitude">>,
     rows |-> << [sampling_point |-> "P1", latitude |-> Text] >>]

\* what the waterbody oracle did during /ingest/map of each session: a confident
\* answer, a failed call, an answer without content
WaterbodyOracle ==
    [sA |-> [raised |-> FALSE, name |-> "La Fe", type |-> "reservoir", confidence |-> 8000],
     sB |-> [raised |-> TRUE, name |-> "", type |-> "unknown", confidence |-> 0],
     sC |-> [raised |-> FALSE, name |-> "", type |-> "pond", confidence |-> 2000]]

\* what build_snippets lets the fallback heuristic see in each upload
Snippets ==
    [sA |-> [type_word |-> "reservoir", sheet_name_after_type_word |-> NULL],
     sB |-> [type_word |-> NULL, sheet_name_after_type_word |-> NULL],
     sC |-> [type_word |-> "lake", sheet_name_after_type_word |-> NULL]]

\* app.py lines 480-489: waterbody = resolve_waterbody(...), None when it raises
SessionWaterbody(sid) ==
    LET res == resolve_waterbody(Snippets[sid], WaterbodyOracle[sid])
    IN IF res.ok THEN res.wb ELSE NO_WATERBODY

SESSION_CACHE ==
    [sA |-> [df_h |-> TableA, df_sampling |-> SamplingFrame(TableA),
             waterbody |-> SessionWaterbody("sA"),
             file_name |-> "a.xlsx", sheet_name |-> "S1", raw_bytes |-> "bytesA"],
     sB |-> [df_h |-> TableB, df_sampling |-> SamplingFrame(TableB),
             waterbody |-> SessionWaterbody("sB"),
             file_name |-> "b.csv", sheet_name |-> NULL, raw_bytes |-> "bytesB"],
     sC |-> [df_h |-> TableC, df_sampling |-> SamplingFrame(TableC),
             waterbody |-> SessionWaterbody("sC"),
             file_name |-> "c.csv", sheet_name |-> NULL, raw_bytes |-> "bytesC"]]


----------------------------------------------------------------------------
(* /ingest/persist (ingest_persist): one request is a chain of committed     *)
(* steps                                                                     *)

\* request slots
Reqs == {1, 2}

\* total number of persist requests a behaviour starts
MaxRequests == 2

\* the JSON bodies the model sends
RequestBodies ==
    {[session_id |-> sid, client_id |-> cid, email |-> NULL, file_name |-> NULL,
      use_content_hash |-> h, mode |-> m, target_dataset_id |-> t,
      value_qualifier |-> NULL] :
        sid \in {"sA", "sB", "bad"}, cid \in {"c1", NULL}, h \in BOOLEAN,
        m \in {"new", "append_auto", "append_to"}, t \in {NULL_ID, 1}}
    \cup
    {[session_id |-> "sC", client_id |-> "c1", email |-> NULL, file_name |-> NULL,
      use_content_hash |-> FALSE, mode |-> m, target_dataset_id |-> 1,
      value_qualifier |-> NULL] : m \in {"new", "append_to"}}
    \cup
    {[session_id |-> "sA", client_id |-> "c1", email |-> NULL, file_name |-> NULL,
      use_content_hash |-> FALSE, mode |-> "new", target_dataset_id |-> NULL_ID,
      value_qualifier |-> "est"]}
    \cup
    {[session_id |-> "sA", client_id |-> "c2", email |-> "c2@example.com",
      file_name |-> NULL, use_content_hash |-> TRUE, mode |-> m, target_dataset_id |-> 1,
      value_qualifier |-> NULL] : m \in {"new", "append_to"}}

NoBody ==
    [session_id |-> "bad", client_id |-> NULL, email |-> NULL, file_name |-> NULL,
     use_content_hash |-> FALSE, mode |-> "new", target_dataset_id |-> NULL_ID,
     value_qualifier |-> NULL]

NoResult == [rows_in |-> 0, rows_inserted |-> 0, rows_skipped |-> 0]

EmptyStore == <<{}, {}, {}, {}, {}, {}, EmptyBag>>

IdleRequest ==
    [pc |-> "idle", data |-> NoBody, waterbody_id |-> NULL_ID, sp_map |-> NoMapping,
     dataset_id |-> NULL_ID, payload |-> <<>>, sent |-> 0, pending |-> <<>>,
     inserted |-> 0, result |-> NoResult, error |-> NULL, failed_at |-> NULL,
     before |-> EmptyStore]

Active == {"client", "waterbody", "sampling", "dataset", "params", "meta",
           "prepare", "insert", "commit"}

Sess(r) == SESSION_CACHE[req[r].data.session_id]

\* email = data.get("email") or "unknown@example.com"
EmailOf(data) == IF Truthy(data.email) THEN data.email ELSE "unknown@example.com"

\* file_name = data.get("file_name") or sess["file_name"]
FileNameOf(data, sess) == IF Truthy(data.file_name) THEN data.file_name ELSE sess.file_name

\* chash = content_sha256(raw_bytes, extra=(sheet_name or "")) if use_hash else None
HashOf(data, sess) ==
    IF data.use_content_hash THEN content_sha256(sess.raw_bytes, sess.sheet_name) ELSE NO_HASH

\* the handler fails with an exception: the connection rolls back what is not committed
Raise(r, err) ==
    req' = [req EXCEPT ![r].pc = "error", ![r].error = err, ![r].failed_at = req[r].pc,
                       ![r].pending = <<>>]

Goto(r, pc) == req' = [req EXCEPT ![r].pc = pc]

\* lines 543-556: read the body, look the session up; an unknown session is a 400
Start(r, data) ==
    /\ req[r].pc \notin Active
    /\ started < MaxRequests
    /\ started' = started + 1
    /\ req' = [req EXCEPT ![r] =
                 [IdleRequest EXCEPT !.data = data, !.before = store,
                    !.pc = IF data.session_id \in DOMAIN SESSION_CACHE
                           THEN "client" ELSE "rejected",
                    !.error = IF data.session_id \in DOMAIN SESSION_CACHE
                              THEN NULL ELSE "invalid session_id"]]
    /\ UNCHANGED <<clients, waterbodies, sampling_points, datasets, parameters,
                   non_parameters, measurements, now, last>>

\* line 569: ensure_client (ensure_schema before it writes no entity row)
StepClient(r) ==
    /\ req[r].pc = "client"
    /\ LET res == ensure_client(clients, req[r].data.client_id, EmailOf(req[r].data))
       IN /\ clients' = res.rows
          /\ IF res.ok THEN Goto(r, "waterbody") ELSE Raise(r, res.error)
    /\ UNCHANGED <<waterbodies, sampling_points, datasets, parameters,
                   non_parameters, measurements, now, started, last>>

\* line 571: waterbody_id = upsert_waterbody(conn, client_id, wb) if wb else None
StepWaterbody(r) ==
    /\ req[r].pc = "waterbody"
    /\ IF Sess(r).waterbody.present
       THEN LET res == upsert_waterbody(waterbodies, req[r].data.client_id, Sess(r).waterbody)
            IN /\ waterbodies' = res.rows
               /\ IF res.ok
                  THEN req' = [req EXCEPT ![r].pc = "sampling", ![r].waterbody_id = res.id]
                  ELSE Raise(r, res.error)
       ELSE /\ waterbodies' = waterbodies
            /\ Goto(r, "sampling")
    /\ UNCHANGED <<clients, sampling_points, datasets, parameters,
                   non_parameters, measurements, now, started, last>>

\* line 572: sp_map = upsert_sampling_points(conn, client_id, waterbody_id, df_sampling)
StepSampling(r) ==
    /\ req[r].pc = "sampling"
    /\ LET res == upsert_sampling_points(sampling_points, req[r].data.client_id,
                                         req[r].waterbody_id, Sess(r).df_sampling)
       IN /\ sampling_points' = res.rows
          /\ IF res.ok
             THEN req' = [req EXCEPT ![r].pc = "dataset", ![r].sp_map = res.mapping]
             ELSE Raise(r, res.error)
    /\ UNCHANGED <<clients, waterbodies, datasets, parameters,
                   non_parameters, measurements, now, started, last>>

\* lines 584-597: the most recently uploaded dataset of this client and waterbody
MostRecentDataset(ds, client_id, waterbody_id) ==
    LET mine == {d \in ds : d.client_id = client_id /\ d.waterbody_id = waterbody_id}
    IN IF mine = {} THEN NULL_ID
       ELSE (CHOOSE d \in mine : \A e \in mine : e.uploaded_at <= d.uploaded_at).dataset_id

\* lines 577-597: the dataset the mode selects, NULL_ID when a new one is to be registered
SelectDataset(ds, data, waterbody_id) ==
    IF data.mode = "append_to" THEN data.target_dataset_id
    ELSE IF data.mode = "append_auto" /\ waterbody_id # NULL_ID
    THEN MostRecentDataset(ds, data.client_id, waterbody_id)
    ELSE NULL_ID

\* line 613: UPDATE public.datasets SET uploaded_at = now() WHERE dataset_id = %s
BumpDataset(ds, dataset_id, t) ==
    {IF d.dataset_id = dataset_id THEN [d EXCEPT !.uploaded_at = t] ELSE d : d \in ds}

\* lines 574-616: decide dataset_id from the mode, register or bump
StepDataset(r) ==
    /\ req[r].pc = "dataset"
    /\ now' = now + 1
    /\ LET data == req[r].data
           sel  == SelectDataset(datasets, data, req[r].waterbody_id)
       IN IF data.mode = "append_to" /\ data.target_dataset_id = NULL_ID
          THEN /\ req' = [req EXCEPT ![r].pc = "rejected",
                                     ![r].error = "target_dataset_id required"]
               /\ datasets' = datasets
          ELSE IF sel = NULL_ID
          THEN LET res == register_dataset(datasets, now + 1, data.client_id,
                              FileNameOf(data, Sess(r)), Sess(r).sheet_name,
                              Len(Sess(r).df_h.rows), Len(Sess(r).df_h.columns),
                              req[r].waterbody_id, HashOf(data, Sess(r)))
               IN /\ datasets' = res.rows
                  /\ IF res.ok
                     THEN req' = [req EXCEPT ![r].pc = "params", ![r].dataset_id = res.id]
                     ELSE Raise(r, res.error)
          ELSE /\ datasets' = BumpDataset(datasets, sel, now + 1)
               /\ req' = [req EXCEPT ![r].pc = "params", ![r].dataset_id = sel]
    /\ UNCHANGED <<clients, waterbodies, sampling_points, parameters,
                   non_parameters, measurements, started, last>>

\* lines 619-622: melt, then upsert the Parameter rows of the codes seen
StepParams(r) ==
    /\ req[r].pc = "params"
    /\ parameters' = upsert_parameters_for_codes(parameters,
                        {rec.parameter_code : rec \in Range(melt_harmonized(Sess(r).df_h))})
    /\ Goto(r, "meta")
    /\ UNCHANGED <<clients, waterbodies, sampling_points, datasets,
                   non_parameters, measurements, now, started, last>>

\* lines 623-624
StepMeta(r) ==
    /\ req[r].pc = "meta"
    /\ non_parameters' = upsert_non_params_for_cols(non_parameters, Range(Sess(r).df_h.columns))
    /\ Goto(r, "prepare")
    /\ UNCHANGED <<clients, waterbodies, sampling_points, datasets,
                   parameters, measurements, now, started, last>>

\* lines 626-627: if value_qualifier: long_df["value_qualifier"] = value_qualifier
WithQualifier(long_df, value_qualifier) ==
    IF Truthy(value_qualifier)
    THEN [i \in 1..Len(long_df) |->
            [ts |-> long_df[i].ts, sampling_point |-> long_df[i].sampling_point,
             parameter_code |-> long_df[i].parameter_code, unit |-> long_df[i].unit,
             value |-> long_df[i].value, source_column |-> long_df[i].source_column,
             value_qualifier |-> value_qualifier]]
    ELSE long_df

\* insert_measurements lines 759-819: flags, the parameter_id map, the payload
StepPrepare(r) ==
    /\ req[r].pc = "prepare"
    /\ LET payload == BuildPayload(parameters, req[r].dataset_id,
                                   WithQualifier(melt_harmonized(Sess(r).df_h),
                                                 req[r].data.value_qualifier),
                                   req[r].sp_map)
       IN IF payload = <<>>
          THEN req' = [req EXCEPT ![r].pc = "done", ![r].result = NoResult]
          ELSE req' = [req EXCEPT ![r].pc = "insert", ![r].payload = payload,
                                  ![r].sent = 0, ![r].pending = <<>>, ![r].inserted = 0]
    /\ UNCHANGED <<clients, waterbodies, sampling_points, datasets, parameters,
                   non_parameters, measurements, now, started, last>>

\* the rows other transactions have inserted and not yet committed: an insert of a
\* conflicting key waits for them
HeldByOthers(r) == UNION {Range(req[q].pending) : q \in Reqs \ {r}}

\* one page of execute_values, inside the transaction of insert_measurements
InsertPage(r) ==
    /\ req[r].pc = "insert"
    /\ LET page == PageOf(req[r].payload, req[r].sent)
           rows == InsertRows(page, BagToSet(measurements) \cup Range(req[r].pending))
       IN /\ \A i \in 1..Len(page) : ~UniqueConflict(page[i], HeldByOthers(r))
          /\ IF \E d \in datasets : d.dataset_id = req[r].dataset_id
             THEN req' = [req EXCEPT
                            ![r].pending = @ \o rows,
                            ![r].inserted = @ + Len(rows),
                            ![r].sent = @ + Len(page),
                            ![r].pc = IF req[r].sent + Len(page) >= Len(req[r].payload)
                                      THEN "commit" ELSE "insert"]
             ELSE Raise(r, "IntegrityError")
    /\ UNCHANGED <<clients, waterbodies, sampling_points, datasets, parameters,
                   non_parameters, measurements, now, started, last>>

\* lines 835, 840: conn.commit() and the counts
Commit(r) ==
    /\ req[r].pc = "commit"
    /\ measurements' = measurements (+) SeqToBag(req[r].pending)
    /\ req' = [req EXCEPT ![r].pc = "done", ![r].pending = <<>>,
                 ![r].result = [rows_in |-> Len(req[r].payload),
                                rows_inserted |-> req[r].inserted,
                                rows_skipped |-> Len(req[r].payload) - req[r].inserted]]
    /\ UNCHANGED <<clients, waterbodies, sampling_points, datasets, parameters,
                   non_parameters, now, started, last>>

\* a handler that commits the pages sent so far instead of rolling them back
CommitPending(ms, pending) == ms (+) SeqToBag(pending)

\* except Exception: conn.rollback(): the rows of the open transaction are dropped
Rollback(ms, pending) == ms

\* an unexpected fault of the store (a failing statement: timeout, deadlock, ...) in the
\* step the request is about to make: lines 836-838 and the handler's except
Fault(r) ==
    /\ req[r].pc \in Active
    /\ Raise(r, "OperationalError")
    /\ measurements' = Rollback(measurements, req[r].pending)
    /\ UNCHANGED <<clients, waterbodies, sampling_points, datasets, parameters,
                   non_parameters, now, started, last>>

Step(r) ==
    \/ StepClient(r)
    \/ StepWaterbody(r)
    \/ StepSampling(r)
    \/ StepDataset(r)
    \/ StepParams(r)
    \/ StepMeta(r)
    \/ StepPrepare(r)
    \/ InsertPage(r)
    \/ Commit(r)
    \/ Fault(r)

NoCall == [op |-> "none"]

Init ==
    /\ clients = {}
    /\ waterbodies = {}
    /\ sampling_points = {}
    /\ datasets = {}
    /\ parameters = {}
    /\ non_parameters = {}
    /\ measurements = EmptyBag
    /\ now = 0
    /\ req = [r \in Reqs |-> IdleRequest]
    /\ started = 0
    /\ last = NoCall

\* requests arrive one after the other
Next ==
    \/ \E data \in RequestBodies : Start(1, data)
    \/ Step(1)

Spec == Init /\ [][Next]_vars

\* C1: the measurement store never holds two rows with the same natural key
\* (dataset, sampling_point, parameter, timestamp, source_column), records without
\* sampling point or timestamp included.
C1_NaturalKeyUnique ==
    \A m \in BagToSet(measurements) :
        /\ CopiesIn(m, measurements) = 1
        /\ \A e \in BagToSet(measurements) : NaturalKey(e) = NaturalKey(m) => e = m

\* C4: when a persist request has failed, the waterbody, sampling-point, dataset,
\* parameter, meta and measurement tables are as they were before the request.
C4_FailedRequestLeavesNothing ==
    \A r \in Reqs :
        req[r].pc = "error" =>
            <<waterbodies, sampling_points, datasets, parameters, non_parameters,
              measurements>> = Tail(req[r].before)

\* the request of slot r came with a known session and lacks an identity input: no
\* client, no file name, or a non-empty sampling table without a site column
LacksIdentity(r) ==
    /\ req[r].pc # "idle"
    /\ req[r].data.session_id \in DOMAIN SESSION_CACHE
    /\ \/ ~Truthy(req[r].data.client_id)
       \/ ~Truthy(FileNameOf(req[r].data, Sess(r)))
       \/ Sess(r).df_sampling.rows # <<>> /\ ~Sess(r).df_sampling.code_col

\* C5: a persist request that lacks an identity input never completes and writes no
\* row of any table; once it has been answered, the answer is the precondition error
\* (or the fault that hit it first).
C5_RejectedBeforeWrite ==
    \A r \in Reqs :
        LacksIdentity(r) =>
            /\ store = req[r].before
            /\ req[r].pc \in {"client", "error"}
            /\ req[r].pc = "error" =>
                  /\ req[r].failed_at = "client"
                  /\ req[r].error \in {"ValueError", "OperationalError"}

\* C5 witness: with rows of an earlier request in the store, a request without client
\* has been answered with the precondition error
C5_Witness ==
    /\ LacksIdentity(1)
    /\ req[1].pc = "error" /\ req[1].error = "ValueError"
    /\ clients # {} /\ measurements # EmptyBag

\* C10: when a fault has hit the measurement insert of a request, on whatever page,
\* no measurement of the batch is in the store (the measurement table is as it was
\* when the request began) and the request fails with that fault.
C10_BatchAllOrNothing ==
    \A r \in Reqs :
        (req[r].pc = "error" /\ req[r].failed_at \in {"insert", "commit"}) =>
            /\ measurements = req[r].before[7]
            /\ req[r].pending = <<>>
            /\ req[r].error \in {"OperationalError", "IntegrityError"}

\* C10 witness: the fault came on a later page, after a first page had inserted a row
C10_Witness ==
    /\ req[1].pc = "error" /\ req[1].failed_at = "insert" /\ req[1].error = "OperationalError"
    /\ req[1].sent >= 1 /\ req[1].inserted >= 1
    /\ req[1].sent < Len(req[1].payload)

\* C13: a persist request of a session whose waterbody oracle call failed ends with
\* a waterbody on record: its waterbody_id is not null and names a stored waterbody.
C13_WaterbodyDespiteOracleFailure ==
    \A r \in Reqs :
        ( /\ req[r].pc = "done"
          /\ WaterbodyOracle[req[r].data.session_id].raised )
        => /\ req[r].waterbody_id # NULL_ID
           /\ \E w \in waterbodies : w.waterbody_id = req[r].waterbody_id

\* C15: a persist request in mode new that has succeeded has added exactly one
\* dataset row, and its measurements carry the identity of that new row.
C15_ModeNewAlwaysInserts ==
    \A r \in Reqs :
        (req[r].pc = "done" /\ req[r].data.mode = "new") =>
            /\ Cardinality(datasets) = Cardinality(req[r].before[4]) + 1
            /\ req[r].dataset_id \notin {d.dataset_id : d \in req[r].before[4]}
            /\ \A i \in 1..Len(req[r].payload) :
                 req[r].payload[i].dataset_id = req[r].dataset_id

\* C16: a persist request in mode append_to whose target is missing or names no
\* stored dataset never succeeds, creates no dataset row and inserts no measurement.
C16_AppendToNeedsTarget ==
    \A r \in Reqs :
        ( /\ req[r].pc # "idle"
          /\ req[r].data.session_id \in DOMAIN SESSION_CACHE
          /\ req[r].data.mode = "append_to"
          /\ req[r].data.target_dataset_id \notin {d.dataset_id : d \in req[r].before[4]} )
        => /\ req[r].pc # "done"
           /\ {d.dataset_id : d \in datasets} = {d.dataset_id : d \in req[r].before[4]}
           /\ measurements = req[r].before[7]

\* C17: the measurements a succeeded persist request has inserted carry the value
\* qualifier of the request when it has one, and none otherwise.
C17_QualifierStored ==
    \A r \in Reqs :
        req[r].pc = "done" =>
            \A m \in BagToSet(measurements (-) req[r].before[7]) :
                m.value_qualifier = IF Truthy(req[r].data.value_qualifier)
                                    THEN req[r].data.value_qualifier ELSE NULL

\* C27: a persist request that succeeded and sent measurements sent them to a
\* dataset whose owning client is the client of the request.
C27_OwnDatasetOnly ==
    \A r \in Reqs :
        (req[r].pc = "done" /\ req[r].payload # <<>>) =>
            \A i \in 1..Len(req[r].payload) :
                \E d \in datasets :
                    /\ d.dataset_id = req[r].payload[i].dataset_id
                    /\ d.client_id = req[r].data.client_id

\* C28: when a persist request has succeeded, every record that melt_harmonized
\* emits for its session with a non-empty site label and a registered parameter has
\* its label in the sampling-point map of the request, mapped to the stored sampling
\* point of the client with that code, and no measurement of the request lacks its
\* sampling point.
C28_SiteLabelsResolved ==
    \A r \in Reqs :
        (req[r].pc = "done") =>
            LET long_df == melt_harmonized(Sess(r).df_h)
            IN /\ \A i \in DOMAIN long_df :
                    (Truthy(long_df[i].sampling_point) /\ HasParameter(parameters, long_df[i])) =>
                        /\ long_df[i].sampling_point \in DOMAIN req[r].sp_map
                        /\ \E p \in sampling_points :
                             /\ p.client_id = req[r].data.client_id
                             /\ p.code = long_df[i].sampling_point
                             /\ p.sampling_point_id = req[r].sp_map[long_df[i].sampling_point]
               /\ (\A i \in DOMAIN long_df : Truthy(long_df[i].sampling_point)) =>
                    \A k \in DOMAIN req[r].payload :
                        req[r].payload[k].sampling_point_id # NULL_ID

----------------------------------------------------------------------------
(* Two persist requests of the same file, their steps interleaved           *)

ConcBody(sid) ==
    [session_id |-> sid, client_id |-> "c1", email |-> NULL, file_name |-> NULL,
     use_content_hash |-> TRUE, mode |-> "new", target_dataset_id |-> NULL_ID,
     value_qualifier |-> NULL]

NextConc ==
    \/ \E r \in Reqs, sid \in {"sA", "sB"} : Start(r, ConcBody(sid))
    \/ \E r \in Reqs : Step(r)

SpecConc == Init /\ [][NextConc]_vars

\* C7: when two persist requests of the same file have both completed, they have
\* resolved to the same dataset and their rows_inserted counts add up to the number
\* of distinct records of the batch.
C7_ConcurrentSameFile ==
    ( /\ started = 2
      /\ req[1].pc = "done" /\ req[2].pc = "done"
      /\ req[1].data = req[2].data )
    => /\ req[1].dataset_id = req[2].dataset_id
       /\ req[1].result.rows_inserted + req[2].result.rows_inserted
            = Cardinality(Range(req[1].payload))

----------------------------------------------------------------------------
(* Direct calls of upsert_waterbody                                          *)

\* what the waterbody resolver can hand over: confidence in 1e-4, unclamped
WaterbodyInputs ==
    {[present |-> TRUE, name |-> "La Fe", type |-> t, confidence |-> c, provenance |-> p] :
        t \in {"reservoir", "pond"}, c \in {4000, 7000, 7004, 50000, 120000},
        p \in {{"llm"}, {"fallback"}}}
    \cup {[present |-> TRUE, name |-> "", type |-> "lake", confidence |-> 4000,
           provenance |-> {"llm"}]}

\* the row an upsert of (client_id, wb) conflicts with, as a set (empty: none)
WaterbodyHit(wbs, client_id, wb) ==
    {w \in wbs : w.client_id = client_id /\ w.name = wb.name /\ w.type = CoerceType(wb.type)}

CallUpsertWaterbody(client_id, wb) ==
    /\ LET res == upsert_waterbody(waterbodies, client_id, wb)
           hit == WaterbodyHit(waterbodies, client_id, wb)
       IN /\ waterbodies' = res.rows
          /\ last' = [op |-> "upsert_waterbody", client_id |-> client_id, wb |-> wb,
                      ok |-> res.ok, id |-> res.id, existed |-> hit # {},
                      old_confidence |-> IF hit = {} THEN 0
                                         ELSE (CHOOSE w \in hit : TRUE).confidence,
                      old_provenance |-> IF hit = {} THEN {}
                                         ELSE (CHOOSE w \in hit : TRUE).provenance]
    /\ UNCHANGED <<clients, sampling_points, datasets, parameters, non_parameters,
                   measurements, now, req, started>>

NextWaterbody ==
    \E client_id \in {"c1", NULL}, wb \in WaterbodyInputs : CallUpsertWaterbody(client_id, wb)

SpecWaterbody == Init /\ [][NextWaterbody]_vars

\* C9 (as stated in the specification): after a call of upsert_waterbody that finds a
\* row of its (client, name, type), the stored confidence equals max(previous, incoming)
\* and the stored provenance equals the union of the previous and the incoming tags.
C9_MaxOfIncoming ==
    (last.op = "upsert_waterbody" /\ last.ok /\ last.existed) =>
        \E w \in waterbodies :
            /\ w.waterbody_id = last.id
            /\ 10 * w.confidence = Max(10 * last.old_confidence, last.wb.confidence)
            /\ w.provenance = last.old_provenance \cup last.wb.provenance

\* C9 (amended): across upsert_waterbody calls no stored confidence decreases and no
\* stored provenance loses a tag; the row a returning call hits ends with confidence
\* max(previous, incoming rounded to the three decimals of the column) and provenance
\* previous \cup incoming; every other row is left as it was.
C9_MaxUnionMerge ==
    [][ (last'.op = "upsert_waterbody") =>
          \A w \in waterbodies :
            \E w2 \in waterbodies' :
              /\ w2.waterbody_id = w.waterbody_id
              /\ w2.confidence >= w.confidence
              /\ w.provenance \subseteq w2.provenance
              /\ IF last'.ok /\ w \in WaterbodyHit(waterbodies, last'.client_id, last'.wb)
                 THEN /\ w2.confidence = Max(w.confidence, ToNumeric43(last'.wb.confidence))
                      /\ w2.provenance = w.provenance \cup last'.wb.provenance
                 ELSE w2 = w ]_vars

\* C9 witness: 0.4/{llm} merged with 0.7/{fallback} is stored as 0.7/{llm, fallback}
C9_Witness ==
    /\ last.op = "upsert_waterbody" /\ last.ok /\ last.existed
    /\ last.old_confidence = 400 /\ last.old_provenance = {"llm"}
    /\ last.wb.confidence = 7000 /\ last.wb.provenance = {"fallback"}
    /\ \E w \in waterbodies :
         w.waterbody_id = last.id /\ w.confidence = 700
         /\ w.provenance = {"llm", "fallback"}

\* C25: every stored waterbody has a confidence between 0 and 1 (the column is in
\* thousandths), whatever confidence the resolver handed over.
C25_ConfidenceInUnitInterval ==
    \A w \in waterbodies : 0 <= w.confidence /\ w.confidence <= 1000

----------------------------------------------------------------------------
(* Direct calls of upsert_sampling_points                                    *)

\* frames of one row with explicit coordinates and depth, a frame that repeats a
\* label, the empty frame and a frame without a site column
SamplingInputs ==
    {[code_col |-> TRUE,
      rows |-> <<[code |-> c, lat |-> la, lon |-> lo, depth_m |-> NULL]>>] :
        c \in {"P1", "Presa"}, la \in {NULL, "6.10", "6.20"}, lo \in {NULL, "-75.50"}}
    \cup {[code_col |-> TRUE,
           rows |-> <<[code |-> "P1", lat |-> NULL, lon |-> NULL, depth_m |-> d]>>] :
             d \in {"2.0", "3.5"}}
    \cup {[code_col |-> TRUE,
           rows |-> <<[code |-> "P1", lat |-> "6.10", lon |-> NULL, depth_m |-> NULL],
                      [code |-> "P1", lat |-> "6.20", lon |-> NULL, depth_m |-> NULL]>>],
          [code_col |-> TRUE, rows |-> <<>>],
          [code_col |-> FALSE,
           rows |-> <<[code |-> NULL, lat |-> "6.10", lon |-> "-75.50", depth_m |-> NULL]>>]}

CallUpsertSamplingPoints(client_id, waterbody_id, df_sampling) ==
    /\ LET res == upsert_sampling_points(sampling_points, client_id, waterbody_id, df_sampling)
       IN /\ sampling_points' = res.rows
          /\ last' = [op |-> "upsert_sampling_points", ok |-> res.ok,
                      mapping |-> res.mapping]
    /\ UNCHANGED <<clients, waterbodies, datasets, parameters, non_parameters,
                   measurements, now, req, started>>

\* two waterbodies of client c1 are on record, so that a sampling point can refer to them
InitEntities ==
    /\ sampling_points = {}
    /\ datasets = {}
    /\ parameters = {}
    /\ non_parameters = {}
    /\ measurements = EmptyBag
    /\ now = 0
    /\ req = [r \in Reqs |-> IdleRequest]
    /\ started = 0
    /\ last = NoCall
    /\ clients = ensure_client({}, "c1", "c1@example.com").rows
    /\ waterbodies =
         upsert_waterbody(
           upsert_waterbody({}, "c1", SESSION_CACHE["sA"].waterbody).rows,
           "c1", [SESSION_CACHE["sA"].waterbody EXCEPT !.type = "lake"]).rows

NextSampling ==
    \E waterbody_id \in {NULL_ID, 1, 2}, df_sampling \in SamplingInputs :
        CallUpsertSamplingPoints("c1", waterbody_id, df_sampling)

SpecSampling == InitEntities /\ [][NextSampling]_vars

\* the fields of a sampling point that an upsert may touch
IsSet(p, f) == IF f = "waterbody_id" THEN p[f] # NULL_ID ELSE p[f] # NULL

\* C3: a field (waterbody reference, name, lat, lon, depth) of an existing sampling
\* point that is set keeps its value through every later upsert of the same
\* (client, code); only unset fields may be filled.
C3_FillIfAbsent ==
    [][ \A p \in sampling_points :
          \E p2 \in sampling_points' :
            /\ p2.sampling_point_id = p.sampling_point_id
            /\ p2.client_id = p.client_id /\ p2.code = p.code
            /\ \A f \in {"waterbody_id", "name", "lat", "lon", "depth_m"} :
                 IsSet(p, f) => p2[f] = p[f] ]_vars

\* the preset coordinates of a code: lat, lon
PresetCoordinate(code, f) == IF f = "lat" THEN PresetOf(code)[1] ELSE PresetOf(code)[2]

\* C14: a lat or lon of a sampling point that was supplied explicitly (it is set and
\* is not the preset value) is never replaced by the value of the preset table.
C14_PresetNeverOverrides ==
    [][ \A p \in sampling_points, p2 \in sampling_points' :
          (p2.client_id = p.client_id /\ p2.code = p.code) =>
            \A f \in {"lat", "lon"} :
              (p[f] # NULL /\ p[f] # PresetCoordinate(p.code, f) /\ p2[f] # p[f])
                => p2[f] # PresetCoordinate(p.code, f) ]_vars

----------------------------------------------------------------------------
(* Direct calls of register_dataset                                          *)

\* number of direct calls a behaviour makes
MaxCalls == 3

DatasetInputs ==
    {[client_id |-> "c1", file_name |-> "a.csv", sheet_name |-> NULL, row_count |-> 1,
      col_count |-> 3, waterbody_id |-> NULL_ID, content_hash |-> h] :
        h \in {NO_HASH, content_sha256("bytesA", NULL), content_sha256("bytesB", "S1")}}
    \cup
    {[client_id |-> "c2", file_name |-> "b.xlsx", sheet_name |-> "S1", row_count |-> 2,
      col_count |-> 4, waterbody_id |-> 1, content_hash |-> h] :
        h \in {NO_HASH, content_sha256("bytesA", NULL), content_sha256("bytesB", "S1")}}
    \cup
    {[client_id |-> NULL, file_name |-> "a.csv", sheet_name |-> NULL, row_count |-> 1,
      col_count |-> 3, waterbody_id |-> NULL_ID, content_hash |-> NO_HASH],
     [client_id |-> "c1", file_name |-> "", sheet_name |-> NULL, row_count |-> 1,
      col_count |-> 3, waterbody_id |-> NULL_ID, content_hash |-> content_sha256("bytesA", NULL)]}

CallRegisterDataset(a) ==
    /\ started < MaxCalls
    /\ started' = started + 1
    /\ now' = now + 1
    /\ LET res == register_dataset(datasets, now + 1, a.client_id, a.file_name, a.sheet_name,
                                   a.row_count, a.col_count, a.waterbody_id, a.content_hash)
       IN /\ datasets' = res.rows
          /\ last' = [op |-> "register_dataset", args |-> a, ok |-> res.ok, id |-> res.id]
    /\ UNCHANGED <<clients, waterbodies, sampling_points, parameters, non_parameters,
                   measurements, req>>

NextDataset == \E a \in DatasetInputs : CallRegisterDataset(a)

SpecDataset == InitEntities /\ [][NextDataset]_vars

DatasetIds(ds) == {d.dataset_id : d \in ds}

\* C8: a call of register_dataset with a fingerprint that is already stored returns
\* the identity of the stored dataset and leaves the number of dataset rows as it
\* was; a call (that passes the identity precondition) with a fingerprint not yet
\* stored, or with none, inserts exactly one dataset row, under a fresh identity.
C8_RegisterIdempotent ==
    [][ (last'.op = "register_dataset" /\ last'.ok) =>
          LET h == last'.args.content_hash
              stored == {d \in datasets : h # NO_HASH /\ d.content_hash = h}
          IN IF stored # {}
             THEN /\ last'.id \in DatasetIds(stored)
                  /\ Cardinality(datasets') = Cardinality(datasets)
                  /\ DatasetIds(datasets') = DatasetIds(datasets)
             ELSE /\ Cardinality(datasets') = Cardinality(datasets) + 1
                  /\ last'.id \notin DatasetIds(datasets)
                  /\ DatasetIds(datasets') = DatasetIds(datasets) \cup {last'.id} ]_vars

\* C8 witness: a fingerprint registered a second time came back with the identity of
\* the first registration, and a registration without fingerprint added a row
C8_Witness ==
    /\ last.op = "register_dataset" /\ last.ok
    /\ last.args.content_hash # NO_HASH
    /\ Cardinality(datasets) = 2 /\ started = 3
    /\ \E d \in datasets : d.content_hash = NO_HASH
    /\ \E d \in datasets : d.dataset_id = last.id /\ d.content_hash = last.args.content_hash
                           /\ d.client_id # last.args.client_id

\* C26: a call of register_dataset with a fingerprint that is already stored changes
\* nothing of the stored dataset but its uploaded_at, which becomes the time of the
\* call: client, waterbody, file name, sheet name, row_count and col_count stay those
\* of the first registration; every other dataset row is left as it was.
C26_ReRegisterOnlyRefreshes ==
    [][ (last'.op = "register_dataset" /\ last'.ok) =>
          \A d \in datasets :
            IF last'.args.content_hash # NO_HASH /\ d.content_hash = last'.args.content_hash
            THEN /\ [d EXCEPT !.uploaded_at = now'] \in datasets'
                 /\ last'.id = d.dataset_id
            ELSE d \in datasets' ]_vars

\* C26 witness: a fingerprint registered by c1 was registered again by another client
\* under another file name, sheet, size and waterbody; the stored row has the values
\* of the first registration and the time of the second
C26_Witness ==
    /\ last.op = "register_dataset" /\ last.ok
    /\ last.args.content_hash # NO_HASH
    /\ last.args.client_id = "c2"
    /\ \E d \in datasets :
         /\ d.dataset_id = last.id /\ d.content_hash = last.args.content_hash
         /\ d.client_id = "c1" /\ d.file_name = "a.csv" /\ d.sheet_name = NULL
         /\ d.row_count = 1 /\ d.col_count = 3 /\ d.waterbody_id = NULL_ID
         /\ last.args.file_name = "b.xlsx" /\ last.args.row_count = 2
         /\ d.uploaded_at = now /\ now >= 2

----------------------------------------------------------------------------
(* Direct calls of upsert_parameters_for_codes and insert_measurements       *)

CodesOf(long_df) == {long_df[i].parameter_code : i \in 1..Len(long_df)}

\* client c1 with its waterbodies, the sampling point "Presa" and two registered datasets
InitInsert ==
    /\ clients = ensure_client({}, "c1", "c1@example.com").rows
    /\ waterbodies = upsert_waterbody({}, "c1", SESSION_CACHE["sA"].waterbody).rows
    /\ sampling_points =
         upsert_sampling_points({}, "c1", 1, SESSION_CACHE["sA"].df_sampling).rows
    /\ datasets =
         register_dataset(
           register_dataset({}, 1, "c1", "a.xlsx", "S1", 2, 4, 1,
                            content_sha256("bytesA", "S1")).rows,
           2, "c1", "b.csv", NULL, 1, 2, NULL_ID, NO_HASH).rows
    /\ parameters = {}
    /\ non_parameters = {}
    /\ measurements = EmptyBag
    /\ now = 2
    /\ req = [r \in Reqs |-> IdleRequest]
    /\ started = 0
    /\ last = NoCall

CallUpsertParameters(codes) ==
    /\ started < MaxCalls
    /\ started' = started + 1
    /\ parameters' = upsert_parameters_for_codes(parameters, codes)
    /\ last' = [op |-> "upsert_parameters_for_codes", codes |-> codes]
    /\ UNCHANGED <<clients, waterbodies, sampling_points, datasets, non_parameters,
                   measurements, now, req>>

CallInsertMeasurements(dataset_id, long_df, sp_map) ==
    /\ started < MaxCalls
    /\ started' = started + 1
    /\ LET res == insert_measurements(parameters, datasets, measurements,
                                      dataset_id, long_df, sp_map)
       IN /\ measurements' = res.rows
          /\ last' = [op |-> "insert_measurements", dataset_id |-> dataset_id,
                      long_df |-> long_df, sp_map |-> sp_map, ok |-> res.ok,
                      rows_in |-> res.rows_in, rows_inserted |-> res.rows_inserted,
                      rows_skipped |-> res.rows_skipped]
    /\ UNCHANGED <<clients, waterbodies, sampling_points, datasets, parameters,
                   non_parameters, now, req>>

NextInsert ==
    \/ \E df_h \in {TableA, TableB} : CallUpsertParameters(CodesOf(melt_harmonized(df_h)))
    \/ \E dataset_id \in {1, 2}, df_h \in {TableA, TableB},
          sp_map \in {NoMapping, ("Presa" :> 1)} :
            CallInsertMeasurements(dataset_id, melt_harmonized(df_h), sp_map)

SpecInsert == InitInsert /\ [][NextInsert]_vars

\* C2: insert_measurements called a second time with the same batch, dataset and
\* site map returns rows_inserted = 0 and the rows_in of the first call.
C2_ReinsertInsertsNothing ==
    [][ ( /\ last.op = "insert_measurements" /\ last'.op = "insert_measurements"
          /\ last'.dataset_id = last.dataset_id
          /\ last'.long_df = last.long_df
          /\ last'.sp_map = last.sp_map )
        => (last'.rows_inserted = 0 /\ last'.rows_in = last.rows_in) ]_vars

\* the records of a batch whose parameter code the registry does not know
Unregistered(long_df) ==
    {i \in 1..Len(long_df) : long_df[i].parameter_code \notin DOMAIN STANDARD_UNITS}

\* C6: for the records of a batch whose parameter code is not in the registry, no
\* Parameter row exists, none of them is inserted, the call returns without an
\* exception, and rows_in exceeds rows_inserted by at least their number.
C6_DropsAreCounted ==
    (last.op = "insert_measurements") =>
        /\ last.ok
        /\ \A i \in Unregistered(last.long_df) :
             /\ last.long_df[i].parameter_code \notin parameters
             /\ \A m \in BagToSet(measurements) :
                  m.parameter_id # last.long_df[i].parameter_code
        /\ last.rows_in - last.rows_inserted >= Cardinality(Unregistered(last.long_df))

----------------------------------------------------------------------------
(* convert_series (unit_convertor.py)                                       *)

\* a float NaN cell, what pd.to_numeric(errors="coerce") makes of text
NaNCell == [num |-> FALSE, v |-> NaN]

\* the numbers of a series to convert are in thousandths of its unit
Milli == 1000

\* pd.to_numeric(s, errors="coerce") applied to every cell of a series
Coerce(series) == [i \in 1..Len(series) |-> IF series[i].num THEN series[i] ELSE NaNCell]

\* the arithmetic of a converter on a numeric cell leaves NaN as it is
OnNumbers(series, f(_)) ==
    [i \in 1..Len(series) |-> IF series[i].num THEN Num(f(series[i].v)) ELSE NaNCell]

_id(series) == Coerce(series)

\* (s - 32.0) * (5.0 / 9.0)
_f_to_c(series) == OnNumbers(series, LAMBDA v : ((v - 32 * Milli) * 5) \div 9)

\* s - 273.15
_k_to_c(series) == OnNumbers(series, LAMBDA v : v - 273150)

\* s / 1000.0
_ugl_to_mgl(series) == OnNumbers(series, LAMBDA v : v \div 1000)

\* the registry entries of the parameters of the model; "ug/L" stands for µg/L
CONVERTERS ==
    (<<"temperature", "F">> :> "_f_to_c") @@ (<<"temperature", "K">> :> "_k_to_c")
    @@ (<<"temperature", "C">> :> "_id") @@ (<<"nitrate", "ug/L">> :> "_ugl_to_mgl")

ApplyConverter(fn, series) ==
    CASE fn = "_f_to_c"     -> _f_to_c(series)
      [] fn = "_k_to_c"     -> _k_to_c(series)
      [] fn = "_ugl_to_mgl" -> _ugl_to_mgl(series)
      [] OTHER              -> _id(series)

\* convert_series with the registry consulted before the standard unit
convert_series_registry_first(param, from_unit, series) ==
    IF param \notin DOMAIN STANDARD_UNITS
    THEN [values |-> series, unit |-> from_unit, converted |-> FALSE]
    ELSE IF <<param, from_unit>> \in DOMAIN CONVERTERS
    THEN [values |-> ApplyConverter(CONVERTERS[<<param, from_unit>>], series),
          unit |-> STANDARD_UNITS[param], converted |-> TRUE]
    ELSE IF from_unit = STANDARD_UNITS[param]
    THEN [values |-> Coerce(series), unit |-> STANDARD_UNITS[param], converted |-> FALSE]
    ELSE [values |-> series, unit |-> from_unit, converted |-> FALSE]

\* convert_series: no converter raises on a series of text and number cells, so the
\* fail-safe of lines 188-190 is not taken
convert_series(param, from_unit, series) ==
    IF param \notin DOMAIN STANDARD_UNITS
    THEN [values |-> series, unit |-> from_unit, converted |-> FALSE]
    ELSE IF from_unit = STANDARD_UNITS[param]
    THEN [values |-> Coerce(series), unit |-> STANDARD_UNITS[param], converted |-> FALSE]
    ELSE IF <<param, from_unit>> \in DOMAIN CONVERTERS
    THEN [values |-> ApplyConverter(CONVERTERS[<<param, from_unit>>], series),
          unit |-> STANDARD_UNITS[param], converted |-> TRUE]
    ELSE [values |-> series, unit |-> from_unit, converted |-> FALSE]

----------------------------------------------------------------------------
(* The map step: the header-classification oracle and the mapping validation *)

UNIT_NOT_PRESENT == "not_present"

\* the allowed units of the parameters of the model ("ug/L" stands for the micro sign form)
CONTROLLED_UNIT_VOCAB ==
    [ph |-> {"unitless"}, temperature |-> {"C", "K", "F"}, nitrate |-> {"mg/L", "ug/L"}]

\* re.sub(r"\s+", " ", str(s)).strip(), on the header strings of the model
_norm_col(s) ==
    CASE s = "pH " -> "pH"
      [] s = " Temp" -> "Temp"
      [] OTHER -> s

\* str(x).strip(), on the field and unit strings of the model
Strip(s) ==
    CASE s = " ph" -> "ph"
      [] s = "C " -> "C"
      [] OTHER -> s

\* round(x, 3): confidences come in units of 1e-4 and leave in units of 1e-3
\* (the inputs of the model avoid the ties, where binary floats decide)
Round3(c) == (c + 5) \div 10

\* an entry of the oracle's array: a JSON object with the five keys (shape "record",
\* confidences numeric), an object whose confidence is not a number, or a value
\* that is no object at all
Entry(raw, field, conf, unit, uconf) ==
    [shape |-> "record", raw_header |-> raw, map_to |-> field, confidence |-> conf,
     unit_map_to |-> unit, unit_confidence |-> uconf]

OracleEntries ==
    {Entry("pH", "ph", 9000, "unitless", 9000),
     Entry("Temp", "temperature", 1234, "C ", 8766),
     Entry("pH", "acidity", 9000, "unitless", 9000),
     Entry("Temp", "temperature", 3000, "celsius", 1234),
     Entry("pH", " ph", 3000, "not_present", 0),
     Entry("pH ", "timestamp", 10000, "not_applicable", 10000),
     Entry("Other", "unknown", 2000, "unknown", 3000),
     Entry("Temp", "ph", 8000, "unitless", 8000),
     Entry("Temp", "temperature", 8000, "F", 8000),
     Entry("pH", "ph", 8000, "not_applicable", 8000),
     [Entry("pH", "ph", 0, "unitless", 0) EXCEPT !.shape = "bad_confidence"],
     [Entry("pH", "ph", 0, "unitless", 0) EXCEPT !.shape = "not_a_record"]}

\* what the oracle call can do: raise (no key, network, service error), or return
\* a text that is a JSON array, an object holding one, or neither
OracleResponses ==
    {[kind |-> "raised", items |-> <<>>], [kind |-> "garbage", items |-> <<>>]}
    \cup {[kind |-> k, items |-> its] :
            k \in {"array"},
            its \in {<<>>} \cup {<<a>> : a \in OracleEntries}
                    \cup {<<a, b>> : a, b \in OracleEntries}}
    \cup {[kind |-> "wrapped", items |-> <<a>>] : a \in OracleEntries}

MapHeaders == {<<"pH">>, <<"pH", "Temp">>, <<"Temp", "pH">>}

_coerce_json_array(resp) ==
    IF resp.kind \in {"array", "wrapped"} THEN resp.items ELSE <<>>

\* lines 254-256: the all-unknown answer that stands in for an empty array
AllUnknown(headers) ==
    [i \in 1..Len(headers) |-> Entry(headers[i], "unknown", 0, UNIT_NOT_PRESENT, 0)]

call_groq_map_headers(headers, resp) ==
    IF resp.kind = "raised"
    THEN [ok |-> FALSE, error |-> "APIError", arr |-> <<>>]
    ELSE LET arr == _coerce_json_array(resp)
         IN [ok |-> TRUE, error |-> NULL,
             arr |-> IF arr = <<>> THEN AllUnknown(headers) ELSE arr]

KnownFields == DOMAIN CONTROLLED_UNIT_VOCAB \cup CONTROLLED_META_VOCAB \cup {"unknown"}

UnitSentinels == {"unknown", UNIT_NOT_PRESENT, "not_applicable"}

\* a validation that leaves the confidence as reported
Uncapped(c, cap) == c

\* min(conf, cap)
Capped(c, cap) == IF c < cap THEN c ELSE cap

\* harmonize.py lines 296-302
ValidField(item) ==
    LET mapped == Strip(item.map_to)
    IN IF mapped \notin KnownFields
       THEN [map_to |-> "unknown", confidence |-> Capped(item.confidence, 5000)]
       ELSE [map_to |-> mapped, confidence |-> item.confidence]

\* a validation that accepts every unit
AnyUnit(mapped, unit_mapped) == TRUE

\* lines 304-305
valid_unit(mapped, unit_mapped) ==
    \/ mapped \in DOMAIN CONTROLLED_UNIT_VOCAB /\ unit_mapped \in CONTROLLED_UNIT_VOCAB[mapped]
    \/ unit_mapped \in UnitSentinels

\* lines 298-307
ValidUnit(item, mapped) ==
    LET unit_mapped == Strip(item.unit_map_to)
    IN IF ~valid_unit(mapped, unit_mapped)
       THEN [unit_map_to |-> "unknown", unit_confidence |-> Capped(item.unit_confidence, 4000)]
       ELSE [unit_map_to |-> unit_mapped, unit_confidence |-> item.unit_confidence]

\* norm_index.get(_norm_col(raw_display)): the column of that normalised name, if any
SrcOf(headers, raw) ==
    LET hits == {i \in 1..Len(headers) : _norm_col(headers[i]) = _norm_col(raw)}
    IN IF hits = {} THEN NULL ELSE headers[CHOOSE i \in hits : \A j \in hits : j <= i]

\* lines 319-326
MappingRow(item) ==
    LET f == ValidField(item)
        u == ValidUnit(item, f.map_to)
    IN [raw_header |-> item.raw_header, suggested_map_to |-> f.map_to,
        confidence |-> Round3(f.confidence), unit_map_to |-> u.unit_map_to,
        unit_confidence |-> Round3(u.unit_confidence)]

\* the loop of lines 295-326 over the oracle's array, in the array's order
RECURSIVE ValidateRows(_, _, _)
ValidateRows(items, headers, used) ==
    IF items = <<>> THEN [ok |-> TRUE, error |-> NULL, rows |-> <<>>]
    ELSE LET item == Head(items)
             src  == SrcOf(headers, item.raw_header)
         IN IF item.shape = "not_a_record"
            THEN [ok |-> FALSE, error |-> "AttributeError", rows |-> <<>>]
            ELSE IF item.shape = "bad_confidence"
            THEN [ok |-> FALSE, error |-> "ValueError", rows |-> <<>>]
            ELSE IF src # NULL /\ src \in used
            THEN ValidateRows(Tail(items), headers, used)
            ELSE LET rest == ValidateRows(Tail(items), headers,
                                          IF src # NULL THEN used \cup {src} ELSE used)
                 IN IF rest.ok
                    THEN [rest EXCEPT !.rows = <<MappingRow(item)>> \o rest.rows]
                    ELSE rest

\* harmonize.py lines 284-326: the oracle call, then the validation of its array
MapAndValidate(headers, resp) ==
    LET m == call_groq_map_headers(headers, resp)
    IN IF m.ok THEN ValidateRows(m.arr, headers, {})
       ELSE [ok |-> FALSE, error |-> m.error, rows |-> <<>>]

\* app.py lines 411-426: the columns /ingest/map keeps, each with its mapped field
RECURSIVE KeptColumns(_, _, _)
KeptColumns(items, headers, used) ==
    IF items = <<>> THEN [ok |-> TRUE, error |-> NULL, columns |-> <<>>]
    ELSE LET item == Head(items)
             src  == SrcOf(headers, item.raw_header)
             mapped == Strip(item.map_to)
         IN IF item.shape = "not_a_record"
            THEN [ok |-> FALSE, error |-> "AttributeError", columns |-> <<>>]
            ELSE IF src = NULL \/ src \in used
            THEN KeptColumns(Tail(items), headers, used)
            ELSE LET rest == KeptColumns(Tail(items), headers, used \cup {src})
                 IN IF ~rest.ok THEN rest
                    ELSE IF mapped \in CONTROLLED_META_VOCAB \cup DOMAIN CONTROLLED_UNIT_VOCAB
                    THEN [rest EXCEPT !.columns = <<[src |-> src, map_to |-> mapped,
                                                     unit |-> Strip(item.unit_map_to)]>>
                                                   \o rest.columns]
                    ELSE rest

\* line 423: the label of a parameter column, from the unit as the oracle gave it
ParamLabel(mapped, unit_mapped) ==
    IF unit_mapped \in {"unknown", UNIT_NOT_PRESENT} THEN mapped ELSE Label(mapped, unit_mapped)

\* line 428: ordered_src = meta_src + param_src
OrderedColumns(columns) ==
    SelectSeq(columns, LAMBDA c : c.map_to \in CONTROLLED_META_VOCAB)
    \o SelectSeq(columns, LAMBDA c : c.map_to \notin CONTROLLED_META_VOCAB)

\* the uploaded table has one row, whose cells under the headers of value columns
\* are text that is no number
RawSeries == <<Text>>

\* lines 432-449: the label and the values of one kept column after the conversion pass
ConvertedColumn(c) ==
    IF c.map_to \in CONTROLLED_META_VOCAB
    THEN [label |-> c.map_to, series |-> RawSeries]
    ELSE LET label == ParamLabel(c.map_to, c.unit)
             from_unit == IF label = c.map_to THEN UNIT_NOT_PRESENT ELSE c.unit
             res == convert_series(c.map_to, from_unit, RawSeries)
         IN IF from_unit \notin {"unknown", UNIT_NOT_PRESENT} /\ res.converted
            THEN [label |-> Label(c.map_to, res.unit), series |-> res.values]
            ELSE [label |-> label, series |-> RawSeries]

\* uniq / _uniqueify: the k-th repetition of a name n becomes "n (k)"
RECURSIVE _uniqueify(_, _)
_uniqueify(names, seen) ==
    IF names = <<>> THEN <<>>
    ELSE LET n == Head(names)
         IN IF n \in DOMAIN seen
            THEN <<Suffixed(n, seen[n] + 1)>>
                 \o _uniqueify(Tail(names), [seen EXCEPT ![n] = @ + 1])
            ELSE <<n>> \o _uniqueify(Tail(names), seen @@ (n :> 0))

\* the cell of the one row under a final column name: a timestamp column holds a
\* string that is no date, a site column the label "P1"
HarmonizedCell(name, series) ==
    IF name \in Range(TS_CANDIDATES) THEN "n/a"
    ELSE IF name \in Range(SP_CANDIDATES) THEN "P1"
    ELSE series[1]

\* lines 428-463: df_h of the kept columns, pd.DataFrame() when there is none
Harmonized(columns) ==
    LET cols  == OrderedColumns(columns)
        conv  == [i \in 1..Len(cols) |-> ConvertedColumn(cols[i])]
        final == _uniqueify([i \in 1..Len(cols) |-> conv[i].label], <<>>)
    IN IF cols = <<>> THEN [columns |-> <<>>, rows |-> <<>>]
       ELSE [columns |-> final,
             rows |-> << [n \in Range(final) |->
                            LET i == CHOOSE j \in 1..Len(final) : final[j] = n
                            IN HarmonizedCell(n, conv[i].series)] >>]

\* app.py lines 399-463 and the handler's except (HTTP 500)
ingest_map(headers, resp) ==
    LET m == call_groq_map_headers(headers, resp)
        k == KeptColumns(m.arr, headers, {})
    IN IF ~m.ok THEN [ok |-> FALSE, error |-> m.error, columns |-> <<>>,
                      df_h |-> [columns |-> <<>>, rows |-> <<>>]]
       ELSE IF ~k.ok THEN [ok |-> FALSE, error |-> k.error, columns |-> <<>>,
                           df_h |-> [columns |-> <<>>, rows |-> <<>>]]
       ELSE [ok |-> TRUE, error |-> NULL, columns |-> k.columns,
             df_h |-> Harmonized(k.columns)]

\* a table with these headers has been uploaded and the oracle has this answer ready
InitMap ==
    /\ clients = {}
    /\ waterbodies = {}
    /\ sampling_points = {}
    /\ datasets = {}
    /\ parameters = {}
    /\ non_parameters = {}
    /\ measurements = EmptyBag
    /\ now = 0
    /\ req = [r \in Reqs |-> IdleRequest]
    /\ started = 0
    /\ \E headers \in MapHeaders, resp \in OracleResponses :
         last = [op |-> "upload", headers |-> headers, resp |-> resp]

MapStep ==
    /\ last.op = "upload"
    /\ LET v == MapAndValidate(last.headers, last.resp)
           k == ingest_map(last.headers, last.resp)
       IN last' = [op |-> "map", headers |-> last.headers, resp |-> last.resp,
                   arr |-> call_groq_map_headers(last.headers, last.resp).arr,
                   ok |-> v.ok, error |-> v.error, rows |-> v.rows,
                   server_ok |-> k.ok, columns |-> k.columns, df_h |-> k.df_h]
    /\ UNCHANGED <<clients, waterbodies, sampling_points, datasets, parameters,
                   non_parameters, measurements, now, req, started>>

\* /ingest/persist of the session the map step left, by client c1 in mode new
\* without fingerprint; the session has no waterbody (its oracle was unavailable)
PersistMapped ==
    /\ last.op = "map" /\ last.server_ok
    /\ LET df_h    == last.df_h
           long_df == melt_harmonized(df_h)
           cl  == ensure_client(clients, "c1", "unknown@example.com")
           sp  == upsert_sampling_points(sampling_points, "c1", NULL_ID, SamplingFrame(df_h))
           ds  == register_dataset(datasets, now + 1, "c1", "upload.csv", NULL,
                                   Len(df_h.rows), Len(df_h.columns), NULL_ID, NO_HASH)
           pa  == upsert_parameters_for_codes(parameters, CodesOf(long_df))
           ins == insert_measurements(pa, ds.rows, measurements, ds.id, long_df, sp.mapping)
       IN /\ clients' = cl.rows
          /\ sampling_points' = sp.rows
          /\ datasets' = ds.rows
          /\ parameters' = pa
          /\ non_parameters' = upsert_non_params_for_cols(non_parameters, Range(df_h.columns))
          /\ measurements' = ins.rows
          /\ now' = now + 1
          /\ last' = [last EXCEPT !.op = "persist"]
    /\ UNCHANGED <<waterbodies, req, started>>

NextMap == MapStep \/ PersistMapped

SpecMap == InitMap /\ [][NextMap]_vars

\* the oracle answered with an array of well-formed entries
WellFormed(resp) ==
    /\ resp.kind \in {"array", "wrapped", "garbage"}
    /\ \A i \in 1..Len(resp.items) : resp.items[i].shape = "record"

\* C11: for a well-formed oracle response, the validated mapping has one entry per
\* raw header, in header order, and a header the response has no entry for is
\* mapped to "unknown".
C11_OnePerHeaderInOrder ==
    (last.op = "map" /\ WellFormed(last.resp)) =>
        /\ last.ok
        /\ Len(last.rows) = Len(last.headers)
        /\ \A i \in 1..Len(last.headers) :
             /\ _norm_col(last.rows[i].raw_header) = _norm_col(last.headers[i])
             /\ (\A j \in 1..Len(last.resp.items) :
                   _norm_col(last.resp.items[j].raw_header) # _norm_col(last.headers[i]))
                => last.rows[i].suggested_map_to = "unknown"

\* C12: whatever the oracle call does (raises, returns nothing usable, returns entries
\* that are no records or carry non-numeric confidences), the map step completes,
\* in the validator and in /ingest/map, and a header of an unusable answer is kept
\* under no known field.
C12_MapNeverAborts ==
    (last.op = "map") =>
        /\ last.ok /\ last.server_ok
        /\ ~WellFormed(last.resp) =>
             /\ \A i \in 1..Len(last.rows) : last.rows[i].suggested_map_to = "unknown"
             /\ last.columns = <<>>


\* the validation loop has produced one row per entry of the oracle's array
RowPerEntry == last.op = "map" /\ last.ok /\ Len(last.rows) = Len(last.arr)

\* C18 as stated: a proposed field outside the known parameter codes, the known meta
\* codes and "unknown" is validated as "unknown" with confidence min(reported, 0.5);
\* a proposed field inside that set is passed through with the reported confidence.
C18_FieldCoercedOrPassed ==
    RowPerEntry =>
        \A i \in 1..Len(last.arr) :
            IF last.arr[i].map_to \notin KnownFields
            THEN /\ last.rows[i].suggested_map_to = "unknown"
                 /\ last.rows[i].confidence * 10 = Min(last.arr[i].confidence, 5000)
            ELSE /\ last.rows[i].suggested_map_to = last.arr[i].map_to
                 /\ last.rows[i].confidence * 10 = last.arr[i].confidence

\* C18 amended: the proposed field is taken without its surrounding whitespace; if it
\* is then outside the known set, the validated field is "unknown" and the validated
\* confidence is min(reported, 0.5) rounded to three decimals; if it is inside, the
\* validated field is that field and the confidence is the reported one rounded to
\* three decimals.
C18_FieldCoercedOrPassedRounded ==
    RowPerEntry =>
        \A i \in 1..Len(last.arr) :
            IF Strip(last.arr[i].map_to) \notin KnownFields
            THEN /\ last.rows[i].suggested_map_to = "unknown"
                 /\ last.rows[i].confidence = Round3(Min(last.arr[i].confidence, 5000))
            ELSE /\ last.rows[i].suggested_map_to = Strip(last.arr[i].map_to)
                 /\ last.rows[i].confidence = Round3(last.arr[i].confidence)

\* C18 witness: "acidity" reported with 0.9 came out as "unknown" with 0.5, next to a
\* known field that was passed through
C18_Witness ==
    /\ RowPerEntry /\ Len(last.arr) = 2
    /\ last.arr[1].map_to = "acidity" /\ last.arr[1].confidence = 9000
    /\ last.rows[1].suggested_map_to = "unknown" /\ last.rows[1].confidence = 500
    /\ last.arr[2].map_to = "temperature" /\ last.rows[2].suggested_map_to = "temperature"
    /\ last.rows[2].confidence = 123

\* C19 as stated: a proposed unit that is neither allowed for the validated field nor
\* one of the three sentinels is validated as "unknown" with unit confidence
\* min(reported, 0.4).
C19_UnitCoerced ==
    RowPerEntry =>
        \A i \in 1..Len(last.arr) :
            ~valid_unit(last.rows[i].suggested_map_to, last.arr[i].unit_map_to) =>
                /\ last.rows[i].unit_map_to = "unknown"
                /\ last.rows[i].unit_confidence * 10 = Min(last.arr[i].unit_confidence, 4000)

\* C19 amended: the proposed unit is taken without its surrounding whitespace; if it
\* is then neither allowed for the validated field nor a sentinel, the validated unit
\* is "unknown" and the unit confidence is min(reported, 0.4) rounded to three decimals.
C19_UnitCoercedRounded ==
    RowPerEntry =>
        \A i \in 1..Len(last.arr) :
            LET unit == Strip(last.arr[i].unit_map_to)
                field == last.rows[i].suggested_map_to
            IN ( /\ ~(field \in DOMAIN CONTROLLED_UNIT_VOCAB
                      /\ unit \in CONTROLLED_UNIT_VOCAB[field])
                 /\ unit \notin UnitSentinels ) =>
                   /\ last.rows[i].unit_map_to = "unknown"
                   /\ last.rows[i].unit_confidence = Round3(Min(last.arr[i].unit_confidence, 4000))

\* C19 witness: "celsius" for temperature came out as "unknown", and "unitless" for a
\* field coerced to "unknown" came out as "unknown" with 0.9 capped to 0.4
C19_Witness ==
    /\ RowPerEntry /\ Len(last.arr) = 2
    /\ last.arr[1].unit_map_to = "celsius" /\ last.rows[1].suggested_map_to = "temperature"
    /\ last.rows[1].unit_map_to = "unknown" /\ last.rows[1].unit_confidence = 123
    /\ last.arr[2].map_to = "acidity" /\ last.arr[2].unit_map_to = "unitless"
    /\ last.arr[2].unit_confidence = 9000
    /\ last.rows[2].unit_map_to = "unknown" /\ last.rows[2].unit_confidence = 400

----------------------------------------------------------------------------
(* Quality flags of a batch: the flag engine and the persisted flag id      *)

\* rows of a melted batch
BatchLen == 6

\* cells of a measurement column: text that is no number, or a number
BatchCells == {Text, Num(7), Num(8), Num(20)}

\* the measurement columns of a harmonized table; "colour" is no registered code
BatchColumns ==
    {<<"ph [unitless]">>, <<"nitrate [mg/L]">>, <<"colour">>,
     <<"ph [unitless]", "nitrate [mg/L]">>}

\* a harmonized table whose measurement columns all hold the cells of `cells`
BatchTable(cols, cells) ==
    [columns |-> cols,
     rows |-> [i \in 1..Len(cells) |-> [c \in Range(cols) |-> cells[i]]]]

BatchTables ==
    {BatchTable(cols, cells) :
        cols \in BatchColumns,
        cells \in UNION {[1..n -> BatchCells] : n \in 1..BatchLen}}

\* the state of InitInsert with every registered code in the catalogue, and a
\* melted batch waiting to be inserted
InitFlags ==
    /\ clients = ensure_client({}, "c1", "c1@example.com").rows
    /\ waterbodies = upsert_waterbody({}, "c1", SESSION_CACHE["sA"].waterbody).rows
    /\ sampling_points =
         upsert_sampling_points({}, "c1", 1, SESSION_CACHE["sA"].df_sampling).rows
    /\ datasets = register_dataset({}, 1, "c1", "b.csv", NULL, 1, 2, NULL_ID, NO_HASH).rows
    /\ parameters = upsert_parameters_for_codes({}, DOMAIN STANDARD_UNITS)
    /\ non_parameters = {}
    /\ measurements = EmptyBag
    /\ now = 1
    /\ req = [r \in Reqs |-> IdleRequest]
    /\ started = 0
    /\ \E df_h \in BatchTables : last = [op |-> "melt_harmonized", long_df |-> melt_harmonized(df_h)]

\* insert_measurements(conn, client_id, dataset_id, long_df, sp_map) on the batch
FlagAndInsert ==
    /\ last.op = "melt_harmonized"
    /\ started' = started + 1
    /\ LET long_df == last.long_df
           res == insert_measurements(parameters, datasets, measurements, 1, long_df, NoMapping)
       IN /\ measurements' = res.rows
          /\ last' = [op |-> "insert_measurements", dataset_id |-> 1,
                      long_df |-> long_df, sp_map |-> NoMapping, ok |-> res.ok,
                      rows_in |-> res.rows_in, rows_inserted |-> res.rows_inserted,
                      rows_skipped |-> res.rows_skipped,
                      flags |-> _compute_quality_flags_df(long_df)]
    /\ UNCHANGED <<clients, waterbodies, sampling_points, datasets, parameters,
                   non_parameters, now, req>>

NextFlags == FlagAndInsert

SpecFlags == InitFlags /\ [][NextFlags]_vars

\* C20: every record of a batch gets one flag out of missing, out_of_range, outlier
\* and ok, and a record without a value gets missing, whatever its parameter and the
\* rest of the batch; every stored measurement carries the id of the flag of its
\* record, which for a measurement without a value is the id of missing.
C20_OneFlagMissingWins ==
    (last.op = "insert_measurements") =>
        /\ DOMAIN last.flags = DOMAIN last.long_df
        /\ \A i \in DOMAIN last.long_df :
             /\ last.flags[i] \in {"missing", "out_of_range", "outlier", "ok"}
             /\ (last.long_df[i].value = NaN) => (last.flags[i] = "missing")
        /\ last.rows_inserted =
             Cardinality({i \in DOMAIN last.long_df :
                             last.long_df[i].parameter_code \in DOMAIN STANDARD_UNITS})
        /\ BagCardinality(measurements) = last.rows_inserted
        /\ \A m \in BagToSet(measurements) :
             /\ (m.value = NaN) => (m.quality_flag_id = QUALITY_FLAGS["missing"])
             /\ \E i \in DOMAIN last.long_df :
                  /\ last.long_df[i].parameter_code = m.parameter_id
                  /\ last.long_df[i].source_column = m.source_column
                  /\ last.long_df[i].value = m.value
                  /\ m.quality_flag_id = QUALITY_FLAGS[last.flags[i]]

\* a batch of two parameters stored with all four flags: 20 is out of range for ph
\* and an outlier for nitrate, and one record of each parameter has no value
C20_Witness ==
    /\ last.op = "insert_measurements"
    /\ Len(last.long_df) = 2 * BatchLen
    /\ {last.flags[i] : i \in DOMAIN last.flags} = {"missing", "out_of_range", "outlier", "ok"}
    /\ \E i \in DOMAIN last.long_df :
         last.long_df[i].value = NaN /\ last.long_df[i].parameter_code = "nitrate"
    /\ {m.quality_flag_id : m \in BagToSet(measurements)} = {0, 1, 2, 3}
    /\ \E m \in BagToSet(measurements) : m.value = NaN /\ m.quality_flag_id = 2

----------------------------------------------------------------------------
(* Quality flags at the bounds of the plausible ranges                      *)

\* cells appended to a column
NumProbes == 3

\* cells below, at and above the bounds of the ranges of ph and nitrate
ProbeCells == {Text, Num(-1), Num(0), Num(14), Num(15), Num(50), Num(51), Num(60)}

\* a column is empty or holds five typical cells, one of them extreme
BaseCells == {<<>>, <<Num(7), Num(7), Num(7), Num(8), Num(20)>>}

RangeTables ==
    {BatchTable(cols, base \o probes) :
        cols \in {<<"ph [unitless]">>, <<"nitrate [mg/L]">>},
        base \in BaseCells,
        probes \in UNION {[1..n -> ProbeCells] : n \in 1..NumProbes}}

InitRange ==
    /\ clients = ensure_client({}, "c1", "c1@example.com").rows
    /\ waterbodies = upsert_waterbody({}, "c1", SESSION_CACHE["sA"].waterbody).rows
    /\ sampling_points =
         upsert_sampling_points({}, "c1", 1, SESSION_CACHE["sA"].df_sampling).rows
    /\ datasets = register_dataset({}, 1, "c1", "b.csv", NULL, 1, 2, NULL_ID, NO_HASH).rows
    /\ parameters = upsert_parameters_for_codes({}, DOMAIN STANDARD_UNITS)
    /\ non_parameters = {}
    /\ measurements = EmptyBag
    /\ now = 1
    /\ req = [r \in Reqs |-> IdleRequest]
    /\ started = 0
    /\ \E df_h \in RangeTables : last = [op |-> "melt_harmonized", long_df |-> melt_harmonized(df_h)]

SpecRange == InitRange /\ [][NextFlags]_vars

\* a present value outside the registered range of its parameter, bounds included
StrictlyOutside(rec) ==
    /\ rec.value # NaN
    /\ rec.parameter_code \in DOMAIN PLAUSIBLE_RANGE
    /\ \/ rec.value < PLAUSIBLE_RANGE[rec.parameter_code][1]
       \/ rec.value > PLAUSIBLE_RANGE[rec.parameter_code][2]

\* the batch without the records whose value is outside the range
WithoutOutside(long_df) == SelectSeq(long_df, LAMBDA rec : ~StrictlyOutside(rec))

\* the flags of the records whose value is not outside the range, in batch order
FlagsOfInside(long_df, flags) ==
    LET idx == SelectSeq([i \in 1..Len(long_df) |-> i], LAMBDA i : ~StrictlyOutside(long_df[i]))
    IN [n \in 1..Len(idx) |-> flags[idx[n]]]

\* C21: a present value of a parameter with a registered range is flagged
\* out_of_range exactly when it is strictly below low or strictly above high, so it
\* is neither outlier nor ok; and the flags of the other records are those of the
\* batch without the out-of-range records: these take no part in the quartiles.
C21_OutOfRangeIsStrict ==
    (last.op = "insert_measurements") =>
        /\ \A i \in DOMAIN last.long_df :
             (last.long_df[i].value # NaN
              /\ last.long_df[i].parameter_code \in DOMAIN PLAUSIBLE_RANGE)
             => ((last.flags[i] = "out_of_range") <=> StrictlyOutside(last.long_df[i]))
        /\ FlagsOfInside(last.long_df, last.flags)
             = _compute_quality_flags_df(WithoutOutside(last.long_df))

\* ph = 15 flagged out_of_range and ph = 0 and ph = 14 flagged ok in one batch
C21_Witness ==
    /\ last.op = "insert_measurements"
    /\ \E i, j, k \in DOMAIN last.long_df :
         /\ last.long_df[i].parameter_code = "ph" /\ last.long_df[i].value = 15
         /\ last.flags[i] = "out_of_range"
         /\ last.long_df[j].parameter_code = "ph" /\ last.long_df[j].value = 0
         /\ last.flags[j] = "ok"
         /\ last.long_df[k].parameter_code = "ph" /\ last.long_df[k].value = 14
         /\ last.flags[k] = "ok"

\* nitrate = 20 stays an outlier among 7, 7, 7, 8 with 60 in the batch, which it
\* would not be if the out-of-range 60 counted for the quartiles
C21_WitnessQuartiles ==
    /\ last.op = "insert_measurements"
    /\ \E i, j \in DOMAIN last.long_df :
         /\ last.long_df[i].parameter_code = "nitrate" /\ last.long_df[i].value = 60
         /\ last.flags[i] = "out_of_range"
         /\ last.long_df[j].parameter_code = "nitrate" /\ last.long_df[j].value = 20
         /\ last.flags[j] = "outlier"

----------------------------------------------------------------------------
(* Outlier scoring needs five values and a spread                           *)

\* the values of parameter pcode that are present and not outside its range
InsideValues(long_df, pcode) ==
    LET idx == SelectSeq([i \in 1..Len(long_df) |-> i],
                   LAMBDA i : /\ long_df[i].parameter_code = pcode
                              /\ long_df[i].value # NaN
                              /\ ~StrictlyOutside(long_df[i]))
    IN [n \in 1..Len(idx) |-> long_df[idx[n]].value]

\* four times the interquartile range of a non-empty sequence of values
Iqr4(values) == Quantile4(SortValues(values), 3) - Quantile4(SortValues(values), 1)

\* fewer than five values, or no spread between the quartiles
NotScored(values) == Len(values) < 5 \/ Iqr4(values) = 0

\* C22: a parameter with fewer than 5 records that are neither missing nor
\* out_of_range, or whose interquartile range over those records is zero, has no
\* record flagged outlier.
C22_NoOutlierWithoutSample ==
    (last.op = "insert_measurements") =>
        \A i \in DOMAIN last.long_df :
            NotScored(InsideValues(last.long_df, last.long_df[i].parameter_code))
                => last.flags[i] # "outlier"

\* cells 7, 7, 7, 7, 20 and one without a number, in a ph and a nitrate column: ph has
\* four values inside its range and nitrate has five with interquartile range zero,
\* so the nitrate value 20 is flagged ok
C22_Witness ==
    /\ last.op = "insert_measurements"
    /\ Len(InsideValues(last.long_df, "ph")) = 4
    /\ Len(InsideValues(last.long_df, "nitrate")) = 5
    /\ Iqr4(InsideValues(last.long_df, "nitrate")) = 0
    /\ \E i \in DOMAIN last.long_df :
         /\ last.long_df[i].parameter_code = "nitrate" /\ last.long_df[i].value = 20
         /\ last.flags[i] = "ok"
    /\ \E i \in DOMAIN last.long_df :
         last.long_df[i].parameter_code = "ph" /\ last.flags[i] = "out_of_range"
    /\ \E i \in DOMAIN last.long_df : last.flags[i] = "missing"

----------------------------------------------------------------------------
(* The unit of a measurement persisted after the map step                   *)

\* C29: every measurement persisted through map then persist carries a unit that is
\* absent or a member of the allowed-unit list of its parameter, whatever unit the
\* header oracle proposed
C29_PersistedUnitAllowed ==
    \A m \in BagToSet(measurements) :
        m.unit = NULL \/ m.unit \in CONTROLLED_UNIT_VOCAB[m.parameter_id]

----------------------------------------------------------------------------
(* Direct calls of convert_series                                           *)

\* cells of a series
MaxSeries == 2

ConvertParams == {"temperature", "ph", "nitrate", "colour"}

ConvertUnits == {"C", "F", "K", "mg/L", "ug/L", "unitless", "celsius"}

\* text, 212 F = 100 C, 273.15 K = 0 C, 5000 ug/L = 5 mg/L
ConvertCells == {Text, Num(212 * Milli), Num(273150), Num(5000 * Milli)}

InitConvert ==
    /\ clients = {}
    /\ waterbodies = {}
    /\ sampling_points = {}
    /\ datasets = {}
    /\ parameters = {}
    /\ non_parameters = {}
    /\ measurements = EmptyBag
    /\ now = 0
    /\ req = [r \in Reqs |-> IdleRequest]
    /\ started = 0
    /\ \E param \in ConvertParams, from_unit \in ConvertUnits,
          series \in UNION {[1..n -> ConvertCells] : n \in 0..MaxSeries} :
            last = [op |-> "series", param |-> param, from_unit |-> from_unit,
                    series |-> series]

CallConvertSeries ==
    /\ last.op = "series"
    /\ started' = started + 1
    /\ last' = [op |-> "convert_series", param |-> last.param,
                from_unit |-> last.from_unit, series |-> last.series,
                res |-> convert_series(last.param, last.from_unit, last.series)]
    /\ UNCHANGED <<clients, waterbodies, sampling_points, datasets, parameters,
                   non_parameters, measurements, now, req>>

NextConvert == CallConvertSeries

SpecConvert == InitConvert /\ [][NextConvert]_vars

\* C23: convert_series follows its four rules in order -- unknown parameter: input and
\* unit unchanged, not converted; source unit equal to the standard unit: coerced
\* values, standard unit, not converted; registered converter: converted values,
\* standard unit, converted; otherwise input and unit unchanged, not converted -- so
\* converted implies the standard unit, different from the source unit, and not
\* converted implies the source unit.
C23_ConvertRulesInOrder ==
    (last.op = "convert_series") =>
        LET known == last.param \in DOMAIN STANDARD_UNITS
            same  == known /\ last.from_unit = STANDARD_UNITS[last.param]
            reg   == <<last.param, last.from_unit>> \in DOMAIN CONVERTERS
            asis  == [values |-> last.series, unit |-> last.from_unit, converted |-> FALSE]
        IN /\ ~known => last.res = asis
           /\ same => last.res = [values |-> Coerce(last.series),
                                  unit |-> STANDARD_UNITS[last.param], converted |-> FALSE]
           /\ (known /\ ~same /\ reg) =>
                /\ last.res.converted
                /\ last.res.unit = STANDARD_UNITS[last.param]
                /\ last.res.values = ApplyConverter(CONVERTERS[<<last.param, last.from_unit>>],
                                                    last.series)
           /\ (known /\ ~same /\ ~reg) => last.res = asis
           /\ last.res.converted =>
                (last.res.unit = STANDARD_UNITS[last.param] /\ last.res.unit # last.from_unit)
           /\ ~last.res.converted => last.res.unit = last.from_unit

\* 212 F and a text cell converted to 100 C and NaN
C23_Witness ==
    /\ last.op = "convert_series"
    /\ last.param = "temperature" /\ last.from_unit = "F"
    /\ last.series = <<Num(212 * Milli), Text>>
    /\ last.res = [values |-> <<Num(100 * Milli), NaNCell>>, unit |-> "C", converted |-> TRUE]

----------------------------------------------------------------------------
(* Direct calls of melt_harmonized                                          *)

\* rows of a wide table
MaxRows == 2

\* column labels of harmonized tables: none, one or two timestamp candidates, none,
\* one or two site candidates, registered, unregistered and meta value columns
MeltColumnChoices ==
    {<<"ph [unitless]">>,
     <<"timestamp", "sampling_point", "ph [unitless]", "latitude">>,
     <<"site", "nitrate [mg/L]", "colour">>,
     <<"time", "date", "site_id", "station", "temperature [C]">>,
     <<"timestamp", "sampling_point">>}

\* the rows over cols: strings in the detected timestamp and site columns, text or
\* number cells in every other column
MeltRows(cols) ==
    LET ts_col == _first_present(cols, TS_CANDIDATES)
        sp_col == _first_present(cols, SP_CANDIDATES)
    IN {t @@ p @@ v :
          t \in [Range(cols) \cap {ts_col} -> {"t1", "n/a"}],
          p \in [Range(cols) \cap {sp_col} -> {"Presa", ""}],
          v \in [Range(cols) \ {ts_col, sp_col} -> {Text, Num(7)}]}

MeltTables ==
    UNION {{[columns |-> cols, rows |-> rows] :
               rows \in UNION {[1..n -> MeltRows(cols)] : n \in 0..MaxRows}} :
           cols \in MeltColumnChoices}

InitMelt ==
    /\ clients = {}
    /\ waterbodies = {}
    /\ sampling_points = {}
    /\ datasets = {}
    /\ parameters = {}
    /\ non_parameters = {}
    /\ measurements = EmptyBag
    /\ now = 0
    /\ req = [r \in Reqs |-> IdleRequest]
    /\ started = 0
    /\ \E df_h \in MeltTables : last = [op |-> "df_h", df_h |-> df_h]

CallMeltHarmonized ==
    /\ last.op = "df_h"
    /\ started' = started + 1
    /\ last' = [op |-> "melt_harmonized", df_h |-> last.df_h,
                long_df |-> melt_harmonized(last.df_h)]
    /\ UNCHANGED <<clients, waterbodies, sampling_points, datasets, parameters,
                   non_parameters, measurements, now, req>>

NextMelt == CallMeltHarmonized

SpecMelt == InitMelt /\ [][NextMelt]_vars

\* the first label of candidates that is among the columns, as a set of 0 or 1 labels
Detected(columns, candidates) ==
    {c \in Range(columns) :
        \E k \in DOMAIN candidates :
            /\ candidates[k] = c
            /\ \A j \in 1..(k - 1) : candidates[j] \notin Range(columns)}

\* the columns other than the detected timestamp and site columns, in table order
ParameterColumns(columns) ==
    SelectSeq(columns, LAMBDA c : c \notin Detected(columns, TS_CANDIDATES)
                                        \cup Detected(columns, SP_CANDIDATES))

----------------------------------------------------------------------------
(* ingest_override_units on a session of the map step (app.py)              *)

\* _UNIT_IN_BRACKETS.search(col): the name ends with a bracketed unit and has no
\* bracket before it
HasBracketedUnit(col) == _parse_param_and_unit(col)[2] # NULL

\* the session the map step caches: the column names of df_h and its rows, cell by
\* cell in column order
SessionOf(df_h) ==
    [columns |-> df_h.columns,
     cells   |-> [r \in 1..Len(df_h.rows) |->
                    [i \in 1..Len(df_h.columns) |-> df_h.rows[r][df_h.columns[i]]]]]

MappedSessions ==
    {SessionOf(ingest_map(h, resp).df_h) :
        <<h, resp>> \in {hr \in MapHeaders \X OracleResponses : ingest_map(hr[1], hr[2]).ok}}

\* str(item.get(key) or "").strip() of the override items of the model
OverrideUnits == {"unitless", "C", ""}

OverrideItems(columns) ==
    {[column |-> c, unit |-> u] : c \in Range(columns) \cup {"Other"}, u \in OverrideUnits}

OverrideLists(columns) ==
    {<<a>> : a \in OverrideItems(columns)}
    \cup {<<a, b>> : a, b \in OverrideItems(columns)}

\* lines 351-357: rename_map, where a later item for the same column replaces an
\* earlier one
RECURSIVE RenameMap(_, _, _)
RenameMap(columns, overrides, rename_map) ==
    IF overrides = <<>> THEN rename_map
    ELSE LET col  == Head(overrides).column
             unit == Head(overrides).unit
         IN IF ~Truthy(col) \/ ~Truthy(unit)
            THEN RenameMap(columns, Tail(overrides), rename_map)
            ELSE IF col \in Range(columns) /\ ~HasBracketedUnit(col)
            THEN RenameMap(columns, Tail(overrides),
                           [c \in DOMAIN rename_map \cup {col} |->
                              IF c = col THEN Label(col, unit) ELSE rename_map[c]])
            ELSE RenameMap(columns, Tail(overrides), rename_map)

\* df_h.rename(columns=rename_map): every column of a mapped name takes the new name
Rename(columns, rename_map) ==
    [i \in 1..Len(columns) |->
        IF columns[i] \in DOMAIN rename_map THEN rename_map[columns[i]] ELSE columns[i]]

\* lines 339-373: HTTP 400 for a session without a table or with an empty one,
\* otherwise the renamed table is cached and previewed
ingest_override_units(sess, overrides) ==
    IF sess.columns = <<>> \/ sess.cells = <<>>
    THEN [status |-> 400, sess |-> sess]
    ELSE [status |-> 200,
          sess |-> [sess EXCEPT !.columns = Rename(sess.columns,
                                                   RenameMap(sess.columns, overrides, <<>>))]]

\* override calls per session in the model
MaxOverrides == 2

InitOverride ==
    /\ clients = {}
    /\ waterbodies = {}
    /\ sampling_points = {}
    /\ datasets = {}
    /\ parameters = {}
    /\ non_parameters = {}
    /\ measurements = EmptyBag
    /\ now = 0
    /\ req = [r \in Reqs |-> IdleRequest]
    /\ started = 0
    /\ \E sess \in MappedSessions :
         last = [op |-> "map", sess |-> sess, created |-> sess, before |-> sess,
                 overrides |-> <<>>, status |-> 200]

CallOverrideUnits ==
    /\ started < MaxOverrides
    /\ \E overrides \in OverrideLists(last.sess.columns) :
         LET res == ingest_override_units(last.sess, overrides)
         IN last' = [op |-> "override_units", sess |-> res.sess, created |-> last.created,
                     before |-> last.sess, overrides |-> overrides, status |-> res.status]
    /\ started' = started + 1
    /\ UNCHANGED <<clients, waterbodies, sampling_points, datasets, parameters,
                   non_parameters, measurements, now, req>>

NextOverride == CallOverrideUnits

SpecOverride == InitOverride /\ [][NextOverride]_vars

Distinct(names) == \A i, j \in DOMAIN names : names[i] = names[j] => i = j

\* C30: for a session created by the map step, after any sequence of
\* ingest_override_units calls the column names of the session's harmonized table
\* are pairwise distinct, its row and column counts are those of the session as
\* created, and a column that carried a bracketed unit before a call keeps its name
C30_OverrideKeepsColumns ==
    /\ Distinct(last.sess.columns)
    /\ Len(last.sess.columns) = Len(last.created.columns)
    /\ Len(last.sess.cells) = Len(last.created.cells)
    /\ \A i \in DOMAIN last.before.columns :
         HasBracketedUnit(last.before.columns[i]) =>
             last.sess.columns[i] = last.before.columns[i]

====
